---- MODULE Spec2Model ----
(***************************************************************************)
(* The position-lifecycle engine of the Hyperliquid breakout bot:          *)
(* BreakoutStrategy (generateSignal gate, executeSignal,                   *)
(* updateTrailingStops, closePosition) driven by the two timers of         *)
(* HyperliquidBot.start, against an exchange that reports positions.       *)
(*                                                                         *)
(* Every await of the code is a point where another callback may run: a    *)
(* step of the model is the code between two awaits.  Prices are Decimal   *)
(* values in thousandths (100000 is 100.000); time is Date.now() in ms.    *)
(***************************************************************************)
EXTENDS Integers, Sequences, FiniteSets, TLC

(* ------------------------------ bounds --------------------------------- *)

\* The clock stops advancing after this many minutes: past the stop-loss
\* cooldown where it moves in steps of CooldownStep minutes, past the
\* duplicate-close window where it moves minute by minute.
MaxMinutes == 16
CloseMinutes == 3
CooldownStep == 5

(* ------------------------- program constants --------------------------- *)

Minute == 60 * 1000
STOP_LOSS_COOLDOWN_MS == 15 * 60 * 1000
CLOSE_POSITION_COOLDOWN_MS == 2 * 60 * 1000

BUY == "BUY"
SELL == "SELL"
OrderSide == {BUY, SELL}

\* config.tradingPairs, in the order mainLoop walks them.  One pair is
\* traded, so each loop over the pairs or over the positions runs its body
\* at most once.
SymbolSeq == <<"BTC">>
Symbols == {SymbolSeq[i] : i \in 1..Len(SymbolSeq)}
NoSym == "-"

\* Candle closes a signal can be generated at, and mark prices the exchange
\* reports.  Every value is a multiple of 0.020, so that x * 0.95, x * 1.05
\* and x * 1.03 are exact in thousandths, as they are in Decimal.
EntryPrices == {100000}
MarkPrices == {95000, 100000, 104500, 110000}

\* config.takeProfitPercent is optional: 0 stands for "not configured".
TakeProfitChoices == {0, 3}

\* An absent map entry (Map.get gives undefined) or an absent local value.
Absent == [absent |-> TRUE]
\* A timestamp map holds 0 for "no entry": the code tests the entry for
\* truthiness, and Date.now() is never 0.
NoTime == 0

(* ------------------------------ strings -------------------------------- *)

\* Reason texts are sequences of characters, so that String.includes is a
\* search and not a comparison of names.
ReasonTrailing ==
    <<"T","r","a","i","l","i","n","g"," ","s","t","o","p"," ","h","i","t">>
ReasonTakeProfit ==
    <<"T","a","k","e"," ","p","r","o","f","i","t"," ","t","a","r","g","e","t",
      " ","r","e","a","c","h","e","d">>
ReasonManual == <<"M","a","n","u","a","l"," ","c","l","o","s","e">>
ReasonEmergency ==
    <<"E","m","e","r","g","e","n","c","y"," ","s","t","o","p">>
NoReason == <<>>

\* Reasons a caller of the public closePosition may pass.
ManualReasons == {ReasonManual, ReasonEmergency}

Includes(text, sub) ==
    \E i \in 1..(Len(text) - Len(sub) + 1) :
        SubSeq(text, i, i + Len(sub) - 1) = sub

(* ------------------------------ decimals ------------------------------- *)

\* price.times(1 -/+ pct / 100)
TimesOneMinusPct(price, pct) == (price * (100 - pct)) \div 100
TimesOnePlusPct(price, pct) == (price * (100 + pct)) \div 100

getTrailingStopPercent(symbol) == 5

\* config.trailingStopPercent, in tenths of a percent (the default 1.5).
trailingStopPercent == 15

(* ------------------------------- state --------------------------------- *)

VARIABLES
    now,                      \* Date.now()
    telegram,                 \* BreakoutStrategy.telegram is defined
    takeProfitPercent,        \* config.takeProfitPercent (0: undefined)
    activeSignals,            \* symbol -> Signal or Absent
    trailingStops,            \* symbol -> {high, stop} or Absent
    stopLossCooldowns,        \* symbol -> timestamp or NoTime
    recentlyClosedPositions,  \* symbol -> timestamp or NoTime
    positions,                \* the exchange: symbol -> Position or Absent
    resting,                  \* the exchange: sides of unfilled entry orders
    main,                     \* mainLoop invocations: id -> frame
    closer,                   \* updateTrailingStops / closePosition callers
    stopCloseAt,              \* symbol -> time of the last completed stop-loss close
    orderedAt,                \* symbol -> time the last close order was placed
    orderedStop,              \* symbol -> the stop whose hit had a close order placed
                              \*   for the long position still reported, until a
                              \*   tick processes the position again
    tickStop,                 \* symbol -> the stop the last tick left for the open position
    event,                    \* what the last step did (outputs of the step)
    isRunning,                \* HyperliquidBot.isRunning
    candleClock,              \* the exchange: number of 5m candles it lists
    lookbackPeriod,           \* config.lookbackPeriod
    priceHistory,             \* symbol -> candles, oldest first
    lastCandleTimestamp,      \* symbol -> time of the newest stored candle, 0: none
    query,                    \* the call being evaluated and what it reads
    answer,                   \* what the call returned or raised
    trendHistory,             \* symbol -> the last trend readings, oldest first
    openPositions,            \* the pairs client.getPositions() lists
    entryOrders,              \* the pairs with a resting LIMIT entry order
    signalled,                \* the pairs activeSignals has an entry for
    loop,                     \* mainLoop's position in the list of pairs
    trail                     \* updateTrailingStops' position in its positions

engineVars == <<activeSignals, trailingStops, stopLossCooldowns,
                recentlyClosedPositions>>
configVars == <<telegram, takeProfitPercent>>
botVars == <<now, telegram, takeProfitPercent, activeSignals, trailingStops,
             stopLossCooldowns, recentlyClosedPositions, positions, resting,
             main, closer, stopCloseAt, orderedAt, orderedStop, tickStop,
             event>>
historyVars == <<isRunning, candleClock, lookbackPeriod, priceHistory,
                 lastCandleTimestamp>>
indicatorVars == <<query, answer, trendHistory>>
loopVars == <<openPositions, entryOrders, signalled, loop, trail>>
vars == <<botVars, historyVars, indicatorVars, loopVars>>
logVars == <<stopCloseAt, orderedAt, orderedStop, tickStop>>

\* Overlapping invocations of the two timer callbacks, and one outside
\* caller of the public closePosition.
MainIds == {"main1", "main2"}
TrailIds == {"trail1", "trail2"}
ManualId == "manual"
CloserIds == TrailIds \cup {ManualId}

\* The signal with the stop and the take-profit of a long on either side.
SignalAsLong(symbol, side, entryPrice) ==
    [side |-> side,
     entryPrice |-> entryPrice,
     stopLoss |-> TimesOneMinusPct(entryPrice, getTrailingStopPercent(symbol)),
     takeProfit |-> IF takeProfitPercent = 0 THEN 0
                    ELSE TimesOnePlusPct(entryPrice, takeProfitPercent)]

\* The Signal generateSignal and generateTrendFollowingSignal build for a
\* side at the newest close; takeProfit 0 stands for undefined.
Signal(symbol, side, entryPrice) ==
    [side |-> side,
     entryPrice |-> entryPrice,
     stopLoss |-> IF side = BUY
                  THEN TimesOneMinusPct(entryPrice, getTrailingStopPercent(symbol))
                  ELSE TimesOnePlusPct(entryPrice, getTrailingStopPercent(symbol)),
     takeProfit |-> IF takeProfitPercent = 0 THEN 0
                    ELSE IF side = BUY
                         THEN TimesOnePlusPct(entryPrice, takeProfitPercent)
                         ELSE TimesOneMinusPct(entryPrice, takeProfitPercent)]

Position(symbol, side, entryPrice, markPrice) ==
    [sym |-> symbol, side |-> side, entryPrice |-> entryPrice,
     markPrice |-> markPrice]

IdleMain == [pc |-> "idle", snap |-> {}, idx |-> 1, sig |-> Absent,
             accepted |-> FALSE]
IdleCloser == [pc |-> "idle", pos |-> Absent, ret |-> "none", csym |-> NoSym,
               reason |-> NoReason, accepted |-> FALSE]

\* The outputs of a step: the operation that ran (op) on which symbol, how
\* it ended (res), whether an external call raised (fail), the notification
\* and the order it sent, how executeSignal was entered (exec) and how
\* closePosition was entered (call, with its reason), and what became of
\* the notification a step awaited (sink: "delivered" or "failed").
Quiet == [op |-> "env", sym |-> NoSym, res |-> "-", fail |-> FALSE,
          notify |-> "none", order |-> "none", exec |-> "-",
          call |-> "none", reason |-> NoReason, sink |-> "-"]

\* TelegramService.sendMessage: a failure of bot.sendMessage is caught and
\* logged, so the promise resolves whether the message was delivered or
\* not.  sendMessageRethrows is sendMessage without its try.
sendMessageRethrows(delivered) ==
    IF delivered THEN "resolved" ELSE "rejected"
sendMessage(delivered) ==
    IF delivered THEN "resolved" ELSE "resolved"


\* The engine and the exchange when the two timers start.
BotInit ==
    /\ now = Minute
    /\ telegram \in BOOLEAN
    /\ takeProfitPercent \in TakeProfitChoices
    /\ activeSignals = [s \in Symbols |-> Absent]
    /\ trailingStops = [s \in Symbols |-> Absent]
    /\ stopLossCooldowns = [s \in Symbols |-> NoTime]
    /\ recentlyClosedPositions = [s \in Symbols |-> NoTime]
    /\ positions \in
         {f \in [Symbols -> {Absent} \cup
                     {Position(s, sd, e, e) : s \in Symbols, sd \in OrderSide,
                                              e \in EntryPrices}] :
            \A s \in Symbols : IF f[s] = Absent THEN TRUE ELSE f[s].sym = s}
    /\ resting = [s \in Symbols |-> {}]
    /\ main = [m \in MainIds |-> IdleMain]
    /\ closer = [c \in CloserIds |-> IdleCloser]
    /\ stopCloseAt = [s \in Symbols |-> NoTime]
    /\ orderedAt = [s \in Symbols |-> NoTime]
    /\ orderedStop = [s \in Symbols |-> Absent]
    /\ tickStop = [s \in Symbols |-> Absent]
    /\ event = Quiet

\* The stored candles of a strategy nobody has loaded data into, with the
\* default lookbackPeriod.
HistoryIdle ==
    /\ isRunning = TRUE
    /\ candleClock = 0
    /\ lookbackPeriod = 10
    /\ priceHistory = [s \in Symbols |-> << >>]
    /\ lastCandleTimestamp = [s \in Symbols |-> 0]

NoQuery == [fn |-> "none"]
NoAnswer == [kind |-> "none"]

IndicatorIdle ==
    /\ query = NoQuery
    /\ answer = NoAnswer
    /\ trendHistory = [s \in Symbols |-> << >>]

\* A main loop that is not running, on an account without positions or
\* orders.
IdleLoop == [pc |-> "idle", snapshot |-> {}, idx |-> 0, failed |-> FALSE]
LoopIdle ==
    /\ openPositions = {}
    /\ entryOrders = {}
    /\ signalled = {}
    /\ loop = IdleLoop
    /\ trail = [IdleLoop EXCEPT !.snapshot = << >>]

Init ==
    /\ BotInit
    /\ LoopIdle
    /\ HistoryIdle
    /\ IndicatorIdle

(* ---------------------------- environment ------------------------------ *)

\* Time passes: Date.now() is step minutes later, up to the horizon.
Tick(step, horizon) ==
    /\ now + step * Minute <= horizon * Minute
    /\ now' = now + step * Minute
    /\ event' = Quiet
    /\ UNCHANGED <<historyVars, indicatorVars, loopVars>>
    /\ UNCHANGED <<configVars, engineVars, positions, resting, main, closer,
                   logVars>>

\* The exchange reports a new mark price for an open position.
MarkMove(s, m) ==
    /\ positions[s] # Absent
    /\ positions[s].markPrice # m
    /\ positions' = [positions EXCEPT ![s].markPrice = m]
    /\ event' = Quiet
    /\ UNCHANGED <<historyVars, indicatorVars, loopVars>>
    /\ UNCHANGED <<now, configVars, engineVars, resting, main, closer,
                   logVars>>

\* A resting entry order fills: it opens a position, adds to a position of
\* its side, or nets a position of the other side to zero.
Fill(s, side) ==
    /\ side \in resting[s]
    /\ resting' = [resting EXCEPT ![s] = @ \ {side}]
    /\ positions' =
         [positions EXCEPT ![s] =
            IF @ = Absent
            THEN Position(s, side, CHOOSE e \in EntryPrices : TRUE,
                          CHOOSE e \in EntryPrices : TRUE)
            ELSE IF @.side = side THEN @ ELSE Absent]
    /\ tickStop' = IF positions'[s] = Absent
                   THEN [tickStop EXCEPT ![s] = Absent]
                   ELSE tickStop
    /\ orderedStop' = IF positions'[s] = Absent
                      THEN [orderedStop EXCEPT ![s] = Absent]
                      ELSE orderedStop
    /\ event' = Quiet
    /\ UNCHANGED <<historyVars, indicatorVars, loopVars>>
    /\ UNCHANGED <<now, configVars, engineVars, main, closer, stopCloseAt,
                   orderedAt>>

\* The exchange stops reporting a position: a reduce-only order filled, the
\* position was liquidated, or it was closed outside the engine.
PositionGone(s) ==
    /\ positions[s] # Absent
    /\ positions' = [positions EXCEPT ![s] = Absent]
    /\ tickStop' = [tickStop EXCEPT ![s] = Absent]
    /\ orderedStop' = [orderedStop EXCEPT ![s] = Absent]
    /\ event' = Quiet
    /\ UNCHANGED <<historyVars, indicatorVars, loopVars>>
    /\ UNCHANGED <<now, configVars, engineVars, resting, main, closer,
                   stopCloseAt, orderedAt>>

(* ------------------- HyperliquidBot.mainLoop (1 minute) ---------------- *)

maxPositions == 3

Ev(op, sym, res) == [Quiet EXCEPT !.op = op, !.sym = sym, !.res = res]

\* The loop variable of "for (const symbol of config.tradingPairs)" moves on.
MainAdvance(frame) ==
    IF frame.idx + 1 > Len(SymbolSeq)
    THEN IdleMain
    ELSE [IdleMain EXCEPT !.pc = "loop", !.snap = frame.snap,
                          !.idx = frame.idx + 1]

\* A timer fires mainLoop: the balance and the positions are queried, the
\* price histories refreshed.  A failed query ends the iteration in the
\* catch block of mainLoop.
MainStart(m) ==
    /\ main[m].pc = "idle"
    /\ \E ok \in BOOLEAN :
         IF ok
         THEN LET snap == {s \in Symbols : positions[s] # Absent} IN
              /\ main' = [main EXCEPT ![m] =
                            IF Cardinality(snap) < maxPositions
                            THEN [IdleMain EXCEPT !.pc = "loop", !.snap = snap]
                            ELSE IdleMain]
              /\ event' = Ev("main", NoSym, "started")
         ELSE /\ main' = main
              /\ event' = Ev("main", NoSym, "failed")
    /\ UNCHANGED <<historyVars, indicatorVars, loopVars>>
    /\ UNCHANGED <<now, configVars, engineVars, positions, resting, closer,
                   logVars>>

\* The cooldown test with the duplicate-close window in place of the
\* stop-loss cooldown.
InCooldownShortWindow(timestamp, t) ==
    timestamp # NoTime /\ t - timestamp < CLOSE_POSITION_COOLDOWN_MS

\* The cooldown test shared by generateSignal and executeSignal.
InCooldown(timestamp, t) ==
    timestamp # NoTime /\ t - timestamp < STOP_LOSS_COOLDOWN_MS

\* generateSignal up to the candle analysis: "history", "active", "cooldown"
\* when it returns null at that check, "evaluate" when it goes on to the
\* analysis.  historyOk: the history is long enough and passes validation.
GenerateGate(symbol, historyOk) ==
    IF ~historyOk THEN "history"
    ELSE IF activeSignals[symbol] # Absent THEN "active"
    ELSE IF InCooldown(stopLossCooldowns[symbol], now) THEN "cooldown"
    ELSE "evaluate"

\* The cooldown map after generateSignal: an expired entry is deleted when
\* the cooldown check is reached.
CooldownsAfterGenerate(symbol, gate) ==
    IF gate = "evaluate"
    THEN [stopLossCooldowns EXCEPT ![symbol] = NoTime]
    ELSE stopLossCooldowns

\* executeSignal before its first await: "blocked_active", "blocked_cooldown"
\* or "query" (getPositions is called).
ExecuteGate(symbol, cooldowns) ==
    IF activeSignals[symbol] # Absent THEN "blocked_active"
    ELSE IF InCooldown(cooldowns[symbol], now) THEN "blocked_cooldown"
    ELSE "query"

\* One pass of the loop body for the current symbol: skip a symbol the
\* snapshot holds a position for, else generateSignal, the risk check and
\* executeSignal up to its position query.  The candle analysis of
\* generateSignal is an input here: analysis is the signal it builds, or
\* Absent; canOpen is RiskManager.canOpenPosition.
MainSymbol(m) ==
    /\ main[m].pc = "loop"
    /\ LET symbol == SymbolSeq[main[m].idx] IN
       IF symbol \in main[m].snap
       THEN /\ main' = [main EXCEPT ![m] = MainAdvance(@)]
            /\ event' = Ev("main", symbol, "skipped")
            /\ UNCHANGED stopLossCooldowns
       ELSE \E historyOk \in BOOLEAN, canOpen \in BOOLEAN,
               analysis \in {Absent} \cup
                  {Signal(symbol, sd, e) : sd \in OrderSide, e \in EntryPrices} :
            LET gate == GenerateGate(symbol, historyOk)
                cooldowns == CooldownsAfterGenerate(symbol, gate)
                signal == IF gate = "evaluate" THEN analysis ELSE Absent
                exec == IF signal # Absent /\ canOpen
                        THEN ExecuteGate(symbol, cooldowns) ELSE "-"
            IN
            /\ stopLossCooldowns' = cooldowns
            /\ main' = [main EXCEPT ![m] =
                          IF exec = "query"
                          THEN [@ EXCEPT !.pc = "exec_positions", !.sig = signal]
                          ELSE MainAdvance(@)]
            /\ event' = [Ev("gen", symbol,
                            IF gate # "evaluate" THEN gate
                            ELSE IF signal = Absent THEN "nosignal"
                            ELSE "signal")
                         EXCEPT !.exec = exec]
    /\ UNCHANGED <<historyVars, indicatorVars, loopVars>>
    /\ UNCHANGED <<now, configVars, activeSignals, trailingStops,
                   recentlyClosedPositions, positions, resting, closer,
                   logVars>>

\* The trailing-stop tracker executeSignal registers for a signal.
TrackerOfSignal(signal) == [high |-> signal.entryPrice, stop |-> signal.stopLoss]

\* executeSignal looking for the position among the positions mainLoop
\* queried at the start of its tick, in place of its own query.
ExecPositionsStale(m) ==
    /\ main[m].pc = "exec_positions"
    /\ LET symbol == SymbolSeq[main[m].idx]
           signal == main[m].sig
       IN
       \E ok \in BOOLEAN, accepted \in BOOLEAN :
         IF ~ok
         THEN /\ main' = [main EXCEPT ![m] = MainAdvance(@)]
              /\ event' = [Ev("exec", symbol, "failed") EXCEPT
                             !.fail = TRUE,
                             !.notify = IF telegram THEN "error" ELSE "none"]
              /\ UNCHANGED <<activeSignals, resting>>
         ELSE IF symbol \in main[m].snap
         THEN /\ activeSignals' = [activeSignals EXCEPT ![symbol] = signal]
              /\ main' = [main EXCEPT ![m] = MainAdvance(@)]
              /\ event' = Ev("exec", symbol, "reconciled")
              /\ UNCHANGED resting
         ELSE /\ main' = [main EXCEPT ![m] = [@ EXCEPT !.pc = "exec_order",
                                                  !.accepted = accepted]]
              /\ resting' = IF accepted
                            THEN [resting EXCEPT ![symbol] = @ \cup {signal.side}]
                            ELSE resting
              /\ event' = [Ev("exec", symbol, "order_sent") EXCEPT
                             !.order = "entry"]
              /\ UNCHANGED activeSignals
    /\ UNCHANGED <<historyVars, indicatorVars, loopVars>>
    /\ UNCHANGED <<now, configVars, trailingStops, stopLossCooldowns,
                   recentlyClosedPositions, positions, closer, logVars>>

\* executeSignal resumes from getPositions.  The query failed: the catch
\* block reports through the sink when there is one.  A position exists: the
\* signal is registered and nothing is ordered.  Otherwise placeOrder is
\* called; the exchange accepts the order (it rests on the book) or not.
ExecPositions(m) ==
    /\ main[m].pc = "exec_positions"
    /\ LET symbol == SymbolSeq[main[m].idx]
           signal == main[m].sig
       IN
       \E ok \in BOOLEAN, accepted \in BOOLEAN :
         IF ~ok
         THEN /\ main' = [main EXCEPT ![m] = MainAdvance(@)]
              /\ event' = [Ev("exec", symbol, "failed") EXCEPT
                             !.fail = TRUE,
                             !.notify = IF telegram THEN "error" ELSE "none"]
              /\ UNCHANGED <<activeSignals, resting>>
         ELSE IF positions[symbol] # Absent
         THEN /\ activeSignals' = [activeSignals EXCEPT ![symbol] = signal]
              /\ main' = [main EXCEPT ![m] = MainAdvance(@)]
              /\ event' = Ev("exec", symbol, "reconciled")
              /\ UNCHANGED resting
         ELSE /\ main' = [main EXCEPT ![m] = [@ EXCEPT !.pc = "exec_order",
                                                  !.accepted = accepted]]
              /\ resting' = IF accepted
                            THEN [resting EXCEPT ![symbol] = @ \cup {signal.side}]
                            ELSE resting
              /\ event' = [Ev("exec", symbol, "order_sent") EXCEPT
                             !.order = "entry"]
              /\ UNCHANGED activeSignals
    /\ UNCHANGED <<historyVars, indicatorVars, loopVars>>
    /\ UNCHANGED <<now, configVars, trailingStops, stopLossCooldowns,
                   recentlyClosedPositions, positions, closer, logVars>>

\* executeSignal resumes from placeOrder: the signal and its tracker are
\* registered and the opening is notified, or the catch block runs.
ExecOrder(m) ==
    /\ main[m].pc = "exec_order"
    /\ LET symbol == SymbolSeq[main[m].idx]
           signal == main[m].sig
       IN
       IF main[m].accepted
       THEN /\ activeSignals' = [activeSignals EXCEPT ![symbol] = signal]
            /\ trailingStops' = [trailingStops EXCEPT
                                   ![symbol] = TrackerOfSignal(signal)]
            /\ \E delivered \in IF telegram THEN BOOLEAN ELSE {TRUE} :
                 event' =
                   IF sendMessage(delivered) = "resolved"
                   THEN [Ev("exec", symbol, "registered") EXCEPT
                           !.notify = IF telegram THEN "opened" ELSE "none",
                           !.sink = IF ~telegram THEN "-"
                                    ELSE IF delivered THEN "delivered"
                                    ELSE "failed"]
                   ELSE [Ev("exec", symbol, "failed") EXCEPT
                           !.fail = TRUE, !.notify = "error",
                           !.sink = "failed"]
       ELSE /\ event' = [Ev("exec", symbol, "failed") EXCEPT
                           !.fail = TRUE,
                           !.notify = IF telegram THEN "error" ELSE "none"]
            /\ UNCHANGED <<activeSignals, trailingStops>>
    /\ main' = [main EXCEPT ![m] = MainAdvance(@)]
    /\ UNCHANGED <<historyVars, indicatorVars, loopVars>>
    /\ UNCHANGED <<now, configVars, stopLossCooldowns, recentlyClosedPositions,
                   positions, resting, closer, logVars>>

(* ----------- BreakoutStrategy.closePosition / updateTrailingStops ------ *)

\* The duplicate test with a window of less than a minute.
SuppressedWithinMinute(closed, symbol) ==
    closed[symbol] # NoTime /\ now - closed[symbol] < Minute

\* closePosition returns at once when the symbol was closed less than
\* CLOSE_POSITION_COOLDOWN_MS ago.
Suppressed(closed, symbol) ==
    closed[symbol] # NoTime /\ now - closed[symbol] < CLOSE_POSITION_COOLDOWN_MS

\* The orphan tracker with the stop below the entry price on either side.
OrphanTrackerBelowEntry(pos) ==
    [high |-> pos.entryPrice,
     stop |-> TimesOneMinusPct(pos.entryPrice, getTrailingStopPercent(pos.sym))]

\* The tracker updateTrailingStops creates for a position without one.
OrphanTracker(pos) ==
    [high |-> pos.entryPrice,
     stop |-> IF pos.side = BUY
              THEN TimesOneMinusPct(pos.entryPrice, getTrailingStopPercent(pos.sym))
              ELSE TimesOnePlusPct(pos.entryPrice, getTrailingStopPercent(pos.sym))]

\* The placeholder signal created with it when a take-profit is configured.
SyntheticSignal(pos, tracker) ==
    [side |-> IF pos.side = BUY THEN BUY ELSE SELL,
     entryPrice |-> pos.entryPrice,
     stopLoss |-> tracker.stop,
     takeProfit |-> IF pos.side = BUY
                    THEN TimesOnePlusPct(pos.entryPrice, takeProfitPercent)
                    ELSE TimesOneMinusPct(pos.entryPrice, takeProfitPercent)]

\* The update that moves the extremum and leaves the stop where it was.
UpdatedTrackerStaleStop(pos, tracker) ==
    IF (pos.side = BUY /\ pos.markPrice > tracker.high)
       \/ (pos.side = SELL /\ pos.markPrice < tracker.high)
    THEN [tracker EXCEPT !.high = pos.markPrice]
    ELSE tracker

\* The tracker after the update for the position's side: a new extreme of
\* the mark price moves the extremum and the stop.
UpdatedTracker(pos, tracker) ==
    IF pos.side = BUY
    THEN IF pos.markPrice > tracker.high
         THEN [high |-> pos.markPrice,
               stop |-> TimesOneMinusPct(pos.markPrice,
                                         getTrailingStopPercent(pos.sym))]
         ELSE tracker
    ELSE IF pos.markPrice < tracker.high
         THEN [high |-> pos.markPrice,
               stop |-> TimesOnePlusPct(pos.markPrice,
                                        getTrailingStopPercent(pos.sym))]
         ELSE tracker

\* The stop test without its boundary.
StopHitStrict(pos, tracker) ==
    IF pos.side = BUY
    THEN pos.markPrice < tracker.stop
    ELSE pos.markPrice > tracker.stop

\* The stop test for the position's side.
StopHit(pos, tracker) ==
    IF pos.side = BUY
    THEN pos.markPrice <= tracker.stop
    ELSE pos.markPrice >= tracker.stop

\* The take-profit test against the symbol's active signal.
TakeProfitHit(pos, signal) ==
    IF signal = Absent THEN FALSE
    ELSE /\ signal.takeProfit # 0
         /\ \/ pos.side = BUY /\ pos.markPrice >= signal.takeProfit
            \/ pos.side = SELL /\ pos.markPrice <= signal.takeProfit

\* closePosition is entered: it returns at once (the frame goes on as
\* `returned`) or goes to its position query.
EnterClose(frame, symbol, reason, ret, closed, returned) ==
    IF Suppressed(closed, symbol)
    THEN returned
    ELSE [frame EXCEPT !.pc = "cp_positions", !.ret = ret, !.csym = symbol,
                       !.reason = reason, !.accepted = FALSE]

\* updateTrailingStops from its take-profit check for the position.
ContinueTakeProfit(frame, pos, signals, closed) ==
    IF TakeProfitHit(pos, signals[pos.sym])
    THEN EnterClose([frame EXCEPT !.pos = pos], pos.sym, ReasonTakeProfit,
                    "tp", closed, IdleCloser)
    ELSE IdleCloser

\* updateTrailingStops from its stop check for the position.
ContinueStop(frame, pos, tracker, signals, closed) ==
    IF StopHit(pos, tracker)
    THEN EnterClose([frame EXCEPT !.pos = pos], pos.sym, ReasonTrailing,
                    "stop", closed,
                    ContinueTakeProfit(frame, pos, signals, closed))
    ELSE ContinueTakeProfit(frame, pos, signals, closed)

\* closePosition returns to its caller, which runs on to its next await.
ReturnFromClose(frame, signals, closed) ==
    IF frame.ret = "stop"
    THEN ContinueTakeProfit(IdleCloser, frame.pos, signals, closed)
    ELSE IdleCloser

\* The caller that closePosition returns to calls it again: the take-profit
\* test holds after the stop close returned.
WantedOnReturn(frame, signals) ==
    frame.ret = "stop" /\ TakeProfitHit(frame.pos, signals[frame.pos.sym])

\* How a step entered closePosition: "query" (it went on to its position
\* query), "suppressed" (it returned at once) or "none".
CallOf(after, wanted) ==
    IF after.pc = "cp_positions" THEN "query"
    ELSE IF wanted THEN "suppressed" ELSE "none"

\* The trailing-stop timer fires updateTrailingStops: the positions are
\* queried and the loop body runs for the reported position, up to the next
\* await.  A failed query ends the tick in the catch block, which logs.
TrailTick(c) ==
    /\ c \in TrailIds
    /\ closer[c].pc = "idle"
    /\ \E ok \in BOOLEAN :
       LET held == SelectSeq(SymbolSeq, LAMBDA x : positions[x] # Absent) IN
       IF ~ok \/ Len(held) = 0
       THEN /\ event' = [Ev("tick", NoSym, IF ok THEN "none" ELSE "failed")
                         EXCEPT !.fail = ~ok]
            /\ UNCHANGED <<engineVars, closer, tickStop, orderedStop>>
       ELSE
       LET pos == positions[held[1]]
           s == pos.sym
           skip == Suppressed(recentlyClosedPositions, s)
           closed == [recentlyClosedPositions EXCEPT ![s] = NoTime]
           orphan == trailingStops[s] = Absent
           tracker0 == IF orphan THEN OrphanTracker(pos) ELSE trailingStops[s]
           signals == IF orphan /\ activeSignals[s] = Absent
                         /\ takeProfitPercent # 0
                      THEN [activeSignals EXCEPT
                              ![s] = SyntheticSignal(pos, tracker0)]
                      ELSE activeSignals
           tracker == UpdatedTracker(pos, tracker0)
           after == ContinueStop(IdleCloser, pos, tracker, signals, closed)
       IN
       IF skip
       THEN /\ event' = Ev("tick", s, "skipped")
            /\ UNCHANGED <<engineVars, closer, tickStop, orderedStop>>
       ELSE /\ recentlyClosedPositions' = closed
            /\ trailingStops' = [trailingStops EXCEPT ![s] = tracker]
            /\ tickStop' = [tickStop EXCEPT ![s] = [stop |-> tracker.stop]]
            /\ orderedStop' = [orderedStop EXCEPT ![s] = Absent]
            /\ activeSignals' = signals
            /\ closer' = [closer EXCEPT ![c] = after]
            /\ event' = [Ev("tick", s, IF orphan THEN "adopted" ELSE "processed")
                         EXCEPT !.call = CallOf(after, StopHit(pos, tracker)
                                     \/ TakeProfitHit(pos, signals[s])),
                                !.reason = after.reason]
            /\ UNCHANGED stopLossCooldowns
    /\ UNCHANGED <<historyVars, indicatorVars, loopVars>>
    /\ UNCHANGED <<now, configVars, positions, resting, main, stopCloseAt,
                   orderedAt>>

\* An outside caller invokes the public closePosition.
ManualClose(s, reason) ==
    /\ closer[ManualId].pc = "idle"
    /\ LET after == EnterClose(IdleCloser, s, reason, "manual",
                               recentlyClosedPositions, IdleCloser)
       IN
       /\ closer' = [closer EXCEPT ![ManualId] = after]
       /\ event' = [Ev("close", s, "entered") EXCEPT
                      !.call = CallOf(after, TRUE), !.reason = reason]
    /\ UNCHANGED <<historyVars, indicatorVars, loopVars>>
    /\ UNCHANGED <<now, configVars, engineVars, positions, resting, main,
                   logVars>>

\* closePosition resumes from getPositions.  The query failed: the catch
\* block logs.  No position: it returns.  Otherwise the reduce-only order
\* is sent; the exchange accepts it or not.
ClosePositions(c) ==
    /\ closer[c].pc = "cp_positions"
    /\ LET frame == closer[c]
           s == frame.csym
       IN
       \E ok \in BOOLEAN, accepted \in BOOLEAN :
         IF ~ok \/ positions[s] = Absent
         THEN LET after == ReturnFromClose(frame, activeSignals,
                                           recentlyClosedPositions)
              IN
              /\ closer' = [closer EXCEPT ![c] = after]
              /\ event' = [Ev("close", s, IF ok THEN "absent" ELSE "failed")
                           EXCEPT !.fail = ~ok,
                                  !.call = CallOf(after,
                                      WantedOnReturn(frame, activeSignals)),
                                  !.reason = frame.reason]
         ELSE /\ closer' = [closer EXCEPT ![c] =
                              [frame EXCEPT !.pc = "cp_order",
                                            !.accepted = accepted]]
              /\ event' = [Ev("close", s, "order_sent") EXCEPT
                             !.order = "close", !.reason = frame.reason]
    /\ UNCHANGED <<historyVars, indicatorVars, loopVars>>
    /\ UNCHANGED <<now, configVars, engineVars, positions, resting, main,
                   logVars>>

\* reason.includes('stop')
IsStopReason(reason) == Includes(reason, <<"s","t","o","p">>)

\* The cleanup that starts the cooldown whatever the reason.
CooldownsAfterCloseAlways(symbol, reason) ==
    [stopLossCooldowns EXCEPT ![symbol] = now]

\* The cooldown map after the cleanup of closePosition.
CooldownsAfterClose(symbol, reason) ==
    IF IsStopReason(reason)
    THEN [stopLossCooldowns EXCEPT ![symbol] = now]
    ELSE stopLossCooldowns

\* The close is a stop-loss exit: the engine's own trailing-stop close.
IsStopLossExit(reason) == reason = ReasonTrailing

\* The cleanup of closePosition and the return to the caller.
Cleanup(c, closed, sink) ==
    LET frame == closer[c]
        s == frame.csym
        signals == [activeSignals EXCEPT ![s] = Absent]
        after == ReturnFromClose(frame, signals, closed)
    IN
    /\ activeSignals' = signals
    /\ trailingStops' = [trailingStops EXCEPT ![s] = Absent]
    /\ stopLossCooldowns' = CooldownsAfterClose(s, frame.reason)
    /\ stopCloseAt' = IF IsStopLossExit(frame.reason)
                      THEN [stopCloseAt EXCEPT ![s] = now]
                      ELSE stopCloseAt
    /\ tickStop' = [tickStop EXCEPT ![s] = Absent]
    /\ closer' = [closer EXCEPT ![c] = after]
    /\ event' = [Ev("close", s, "done") EXCEPT
                   !.call = CallOf(after, WantedOnReturn(frame, signals)),
                   !.reason = frame.reason, !.sink = sink]

\* closePosition resumes from placeOrder.  Placed: the symbol is marked as
\* recently closed, then the close is notified (an await when there is a
\* sink) and the cleanup runs.  Not placed: the catch block logs.
CloseOrder(c) ==
    /\ closer[c].pc = "cp_order"
    /\ LET frame == closer[c]
           s == frame.csym
           closed == [recentlyClosedPositions EXCEPT ![s] = now]
       IN
       IF ~frame.accepted
       THEN LET after == ReturnFromClose(frame, activeSignals,
                                         recentlyClosedPositions)
            IN
            /\ closer' = [closer EXCEPT ![c] = after]
            /\ event' = [Ev("close", s, "failed") EXCEPT
                           !.fail = TRUE,
                           !.call = CallOf(after,
                               WantedOnReturn(frame, activeSignals)),
                           !.reason = frame.reason]
            /\ UNCHANGED <<engineVars, logVars>>
       ELSE /\ recentlyClosedPositions' = closed
            /\ orderedAt' = [orderedAt EXCEPT ![s] = now]
            /\ orderedStop' = IF /\ frame.ret = "stop"
                                 /\ positions[s] # Absent
                                 /\ positions[s].side = BUY
                                 /\ tickStop[s] # Absent
                              THEN [orderedStop EXCEPT ![s] = tickStop[s]]
                              ELSE orderedStop
            /\ IF telegram
               THEN /\ closer' = [closer EXCEPT ![c] =
                                    [frame EXCEPT !.pc = "cp_notify"]]
                    /\ event' = [Ev("close", s, "ordered") EXCEPT
                                   !.notify = "closed",
                                   !.reason = frame.reason]
                    /\ UNCHANGED <<activeSignals, trailingStops,
                                   stopLossCooldowns, stopCloseAt, tickStop>>
               ELSE Cleanup(c, closed, "-")
    /\ UNCHANGED <<historyVars, indicatorVars, loopVars>>
    /\ UNCHANGED <<now, configVars, positions, resting, main>>

\* closePosition resumes from notifyPositionClosed: the cleanup runs when
\* the promise resolved, the catch block when it was rejected.
CloseNotified(c) ==
    /\ closer[c].pc = "cp_notify"
    /\ \E delivered \in BOOLEAN :
         IF sendMessage(delivered) = "resolved"
         THEN Cleanup(c, recentlyClosedPositions,
                      IF delivered THEN "delivered" ELSE "failed")
         ELSE LET frame == closer[c]
                  after == ReturnFromClose(frame, activeSignals,
                                           recentlyClosedPositions)
              IN /\ closer' = [closer EXCEPT ![c] = after]
                 /\ event' = [Ev("close", frame.csym, "failed") EXCEPT
                                !.fail = TRUE,
                                !.call = CallOf(after,
                                    WantedOnReturn(frame, activeSignals)),
                                !.reason = frame.reason, !.sink = "failed"]
                 /\ UNCHANGED <<activeSignals, trailingStops,
                                stopLossCooldowns, stopCloseAt, tickStop>>
    /\ UNCHANGED <<historyVars, indicatorVars, loopVars>>
    /\ UNCHANGED <<now, configVars, recentlyClosedPositions, positions,
                   resting, main, orderedAt, orderedStop>>

(* --------------------------- specifications ---------------------------- *)

MainStep(m) ==
    \/ MainStart(m)
    \/ MainSymbol(m)
    \/ ExecPositions(m)
    \/ ExecOrder(m)

CloserStep(c) ==
    \/ TrailTick(c)
    \/ ClosePositions(c)
    \/ CloseOrder(c)
    \/ CloseNotified(c)

\* One mainLoop, one updateTrailingStops and an outside caller of
\* closePosition interleave at their awaits; no time passes.
Next ==
    \/ \E s \in Symbols, m \in MarkPrices : MarkMove(s, m)
    \/ \E s \in Symbols, side \in OrderSide : Fill(s, side)
    \/ \E s \in Symbols : PositionGone(s)
    \/ MainStep("main1")
    \/ \E c \in {"trail1", ManualId} : CloserStep(c)
    \/ \E s \in Symbols, r \in ManualReasons : ManualClose(s, r)

Spec == Init /\ [][Next]_vars

\* The two timers over the stop-loss cooldown: mainLoop and
\* updateTrailingStops, with the clock.
CooldownNext ==
    \/ Tick(CooldownStep, MaxMinutes)
    \/ \E s \in Symbols, m \in MarkPrices : MarkMove(s, m)
    \/ \E s \in Symbols, side \in OrderSide : Fill(s, side)
    \/ \E s \in Symbols : PositionGone(s)
    \/ MainStep("main1")
    \/ CloserStep("trail1")

CooldownSpec == Init /\ [][CooldownNext]_vars

\* Callers of closePosition over the duplicate-close window: the
\* trailing-stop timer and an outside caller, with the clock, on the
\* positions the exchange reports at start.
CloseNext ==
    \/ Tick(1, CloseMinutes)
    \/ \E s \in Symbols, m \in MarkPrices : MarkMove(s, m)
    \/ \E s \in Symbols : PositionGone(s)
    \/ \E c \in {"trail1", ManualId} : CloserStep(c)
    \/ \E s \in Symbols, r \in ManualReasons : ManualClose(s, r)

CloseSpec == Init /\ [][CloseNext]_vars

\* Two overlapping mainLoop invocations (an iteration that outlasts the
\* timer interval) against the exchange; no time passes.
OverlapNext ==
    \/ \E s \in Symbols, side \in OrderSide : Fill(s, side)
    \/ \E s \in Symbols : PositionGone(s)
    \/ \E m \in MainIds : MainStep(m)

OverlapSpec == Init /\ [][OverlapNext]_vars

\* The two timers against the exchange, each firing again and again:
\* setInterval keeps calling mainLoop and updateTrailingStops, and every
\* await of theirs resolves.  The exchange owes nothing.
TimerNext ==
    \/ \E s \in Symbols, m \in MarkPrices : MarkMove(s, m)
    \/ \E s \in Symbols, side \in OrderSide : Fill(s, side)
    \/ \E s \in Symbols : PositionGone(s)
    \/ MainStep("main1")
    \/ CloserStep("trail1")

FairSpec ==
    /\ Init
    /\ [][TimerNext]_vars
    /\ WF_vars(MainStep("main1"))
    /\ WF_vars(CloserStep("trail1"))

(* --------------------------- price history ----------------------------- *)

\* Candles are named by their open time, counted in 5m intervals: the
\* exchange lists candles 1..candleClock.  It lists ListedCandles of them
\* when the bot starts, and the model stops the clock at MaxCandle.
ListedCandles == 100
MaxCandle == 108
LookbackChoices == {10, 30}

Max(a, b) == IF a >= b THEN a ELSE b
Min(a, b) == IF a <= b THEN a ELSE b

\* getHistoricalCandles(symbol, '5m', limit): the newest limit candles the
\* exchange lists, oldest first; [] when the request fails.
LatestCandles(limit) ==
    [i \in 1..Min(limit, candleClock) |->
       candleClock - Min(limit, candleClock) + i]
getHistoricalCandles(limit) == {<< >>, LatestCandles(limit)}

\* The strategy before HyperliquidBot.start loads it.
HistoryInit ==
    /\ BotInit
    /\ LoopIdle
    /\ telegram = FALSE
    /\ takeProfitPercent = 0
    /\ \A s \in Symbols : positions[s] = Absent
    /\ IndicatorIdle
    /\ isRunning = FALSE
    /\ candleClock = ListedCandles
    /\ lookbackPeriod \in LookbackChoices
    /\ priceHistory = [s \in Symbols |-> << >>]
    /\ lastCandleTimestamp = [s \in Symbols |-> 0]

\* The exchange closes a 5m candle and opens the next.
CandleClose ==
    /\ candleClock < MaxCandle
    /\ candleClock' = candleClock + 1
    /\ UNCHANGED <<loopVars, botVars, indicatorVars, isRunning, lookbackPeriod,
                   priceHistory, lastCandleTimestamp>>

\* initializeWithHistoricalData: the stored history and the newest
\* timestamp after the call.
InitializedHistory(symbol, historicalData) ==
    [priceHistory EXCEPT ![symbol] = historicalData]
InitializedTimestamp(symbol, historicalData) ==
    IF Len(historicalData) > 0
    THEN [lastCandleTimestamp EXCEPT
            ![symbol] = historicalData[Len(historicalData)]]
    ELSE lastCandleTimestamp

\* HyperliquidBot.start: the historical backfill of the traded pair, then
\* isRunning.
StartBackfill(s) ==
    /\ ~isRunning
    /\ \E historicalCandles \in
            getHistoricalCandles(Max(100, lookbackPeriod * 2)) :
         IF Len(historicalCandles) > 0
         THEN /\ priceHistory' = InitializedHistory(s, historicalCandles)
              /\ lastCandleTimestamp' =
                     InitializedTimestamp(s, historicalCandles)
         ELSE UNCHANGED <<priceHistory, lastCandleTimestamp>>
    /\ isRunning' = TRUE
    /\ UNCHANGED <<loopVars, botVars, indicatorVars, candleClock, lookbackPeriod>>

maxHistory == Max(50, lookbackPeriod * 2)

\* The selection that also takes a candle as old as the newest stored.
NewCandlesInclusive(symbol, recentCandles) ==
    SelectSeq(recentCandles, LAMBDA c : c >= lastCandleTimestamp[symbol])

\* The candles of recentCandles newer than what is stored.
NewCandles(symbol, recentCandles) ==
    SelectSeq(recentCandles, LAMBDA c : c > lastCandleTimestamp[symbol])

\* history.splice(0, history.length - maxHistory) when it is too long.
Spliced(history) ==
    IF Len(history) > maxHistory
    THEN SubSeq(history, Len(history) - maxHistory + 1, Len(history))
    ELSE history

\* updatePriceHistory, called by mainLoop for the traded pair.
updatePriceHistory(s) ==
    /\ isRunning
    /\ \E recentCandles \in getHistoricalCandles(5) :
         IF Len(recentCandles) = 0
         THEN UNCHANGED <<priceHistory, lastCandleTimestamp>>
         ELSE LET added == NewCandles(s, recentCandles)
                  history == priceHistory[s] \o added
              IN /\ priceHistory' =
                       [priceHistory EXCEPT ![s] = Spliced(history)]
                 /\ lastCandleTimestamp' =
                       IF Len(added) > 0
                       THEN [lastCandleTimestamp EXCEPT
                               ![s] = added[Len(added)]]
                       ELSE lastCandleTimestamp
    /\ UNCHANGED <<loopVars, botVars, indicatorVars, isRunning, candleClock,
                   lookbackPeriod>>

HistoryNext ==
    \/ CandleClose
    \/ \E s \in Symbols : StartBackfill(s)
    \/ \E s \in Symbols : updatePriceHistory(s)

HistorySpec == HistoryInit /\ [][HistoryNext]_vars

(* ------------------------ technical indicators ------------------------- *)

\* Prices and volumes are Decimal values written as integers; every
\* comparison of the code is made on exact values, a percentage or a ratio
\* being compared after multiplying through by its denominator.
\*
\* An indicator that smooths the whole close series (an EMA, the ATR) is
\* not computed here: what the code reads off it is an input of the model
\* (a fact about the candles), and the model computes what the code does
\* with the history's length and with these facts.


\* config.volumeMultiplier in tenths, config.breakoutBuffer in thousandths.
volumeMultiplier == 15
breakoutBuffer == 1
RSI_OVERBOUGHT == 70
RSI_OVERSOLD == 30
trendFollowingSmaPeriod == 20
trendFollowingMinConsecutiveTrends == 3

\* detectBreakout with inclusive boundaries.
detectBreakoutInclusive(currentPrice, resistance, support, buffer) ==
    IF currentPrice * 1000 >= resistance * (1000 + buffer) THEN "BULLISH"
    ELSE IF currentPrice * 1000 <= support * (1000 - buffer) THEN "BEARISH"
    ELSE "none"

\* detectBreakout with the buffer in thousandths.
detectBreakout(currentPrice, resistance, support, buffer) ==
    IF currentPrice * 1000 > resistance * (1000 + buffer) THEN "BULLISH"
    ELSE IF currentPrice * 1000 < support * (1000 - buffer) THEN "BEARISH"
    ELSE "none"

\* isVolumeSpike with the multiplier in tenths.
isVolumeSpike(currentVolume, averageVolume, multiplier) ==
    currentVolume * 10 > averageVolume * multiplier

\* What the last 20 candles show, second half against first half:
\* "HIGHER" (higher high and higher low), "LOWER" (lower high and lower
\* low) or "MIXED".  detectTrend's layer 2 and detectPriceStructure(.., 10)
\* compare the same two halves.
\* How EMA20, EMA50, EMA200 (detectTrend) and price, EMA9, EMA21, EMA50
\* (isEmaAligned) are ordered: "bull" (descending from the fastest), "bear"
\* (ascending) or "mixed".

\* detectTrend whose slowest EMA is the EMA50: no call of calculateEMA
\* asks for more closes than longPeriod.
detectTrendWithoutEma200(len, longPeriod, ranging, halves, emaStack) ==
    IF len < longPeriod THEN "SIDEWAYS"
    ELSE IF len < 15 THEN "Insufficient data"
    ELSE IF ranging THEN "SIDEWAYS"
    ELSE IF halves = "MIXED" THEN "SIDEWAYS"
    ELSE IF len < 50 THEN "Insufficient data"
    ELSE IF halves = "HIGHER" /\ emaStack = "bull" THEN "UPTREND"
    ELSE IF halves = "LOWER" /\ emaStack = "bear" THEN "DOWNTREND"
    ELSE "SIDEWAYS"

\* detectTrend(prices, 20, longPeriod) on a history of len candles: ranging
\* is layer 1's verdict (price range below twice the ATR), halves layer 2's
\* comparison, emaStack the order of EMA20, EMA50, EMA200.  calculateEMA
\* raises on fewer closes than its period.
detectTrend(len, longPeriod, ranging, halves, emaStack) ==
    IF len < longPeriod THEN "SIDEWAYS"
    ELSE IF len < 15 THEN "Insufficient data"
    ELSE IF ranging THEN "SIDEWAYS"
    ELSE IF halves = "MIXED" THEN "SIDEWAYS"
    ELSE IF len < 200 THEN "Insufficient data"
    ELSE IF halves = "HIGHER" /\ emaStack = "bull" THEN "UPTREND"
    ELSE IF halves = "LOWER" /\ emaStack = "bear" THEN "DOWNTREND"
    ELSE "SIDEWAYS"

\* detectPriceStructure(prices, lookback) on a history of len candles.
detectPriceStructure(len, lookback, halves) ==
    IF len < lookback * 2 THEN "CHOPPY"
    ELSE IF halves = "HIGHER" THEN "HIGHER_HIGHS"
    ELSE IF halves = "LOWER" THEN "LOWER_LOWS"
    ELSE "CHOPPY"

\* isEmaAligned(prices, direction).aligned on a history of len candles.
isEmaAligned(len, direction, emaOrder) ==
    IF len < 50 THEN FALSE
    ELSE IF direction = "BULLISH" THEN emaOrder = "bull"
    ELSE emaOrder = "bear"

(* --------------------------- candle analysis --------------------------- *)

\* What generateSignal reads of a symbol's history: its length, its newest
\* candles (tail, oldest first, each a close and a volume), the values the
\* indicators compute from it (resistance, support, avgVolume, rsi) and the
\* facts above; with the trend-following configuration and its inputs (the
\* side of the SMA the price is on, the price being within the maximum
\* distance of the recent high and of the recent low).
Candle(close, volume) == [close |-> close, volume |-> volume]

\* The index in the history of the candle at tail position p.
HistoryIndex(q, p) == q.len - Len(q.tail) + p - 1
currentPrice(q) == q.tail[Len(q.tail)].close

RECURSIVE WindowVolume(_, _, _)
WindowVolume(q, startPos, endPos) ==
    IF startPos > endPos THEN 0
    ELSE q.tail[startPos].volume + WindowVolume(q, startPos + 1, endPos)

\* The large single-candle move of the candle at p: more than 5% against
\* the previous close, with a volume spike.
LargeMove(q, p, candleVolumeSpike) ==
    IF HistoryIndex(q, p) > 0
    THEN LET change == q.tail[p].close - q.tail[p - 1].close
             prev == q.tail[p - 1].close
         IN IF change * 100 < (0 - 5) * prev /\ candleVolumeSpike THEN "BEARISH"
            ELSE IF change * 100 > 5 * prev /\ candleVolumeSpike THEN "BULLISH"
            ELSE "none"
    ELSE "none"

\* The cumulative test with the windows tried largest first.
RECURSIVE CumulativeMoveDescending(_, _, _)
CumulativeMoveDescending(q, p, windowSize) ==
    LET w == 7 - windowSize IN
    IF windowSize > 5 \/ HistoryIndex(q, p) < 1 THEN "none"
    ELSE IF HistoryIndex(q, p) >= w - 1
    THEN LET startPos == p - w + 1
             start == q.tail[startPos].close
             change == q.tail[p].close - start
             totalVolume == WindowVolume(q, startPos, p)
             ratioOk == totalVolume * 10 >= 2 * w * q.avgVolume
         IN IF change * 10000 < (0 - 175) * start /\ ratioOk THEN "BEARISH"
            ELSE IF change * 10000 > 175 * start /\ ratioOk THEN "BULLISH"
            ELSE CumulativeMoveDescending(q, p, windowSize + 1)
    ELSE CumulativeMoveDescending(q, p, windowSize + 1)

\* The cumulative move over the windows of windowSize..5 candles ending at
\* p, smallest window first: more than 1.75% between the window's first and
\* last close, at a window-average volume of at least 0.2 of avgVolume.
RECURSIVE CumulativeMove(_, _, _)
CumulativeMove(q, p, windowSize) ==
    IF windowSize > 5 \/ HistoryIndex(q, p) < 1 THEN "none"
    ELSE IF HistoryIndex(q, p) >= windowSize - 1
    THEN LET startPos == p - windowSize + 1
             start == q.tail[startPos].close
             change == q.tail[p].close - start
             totalVolume == WindowVolume(q, startPos, p)
             ratioOk == totalVolume * 10 >= 2 * windowSize * q.avgVolume
         IN IF change * 10000 < (0 - 175) * start /\ ratioOk THEN "BEARISH"
            ELSE IF change * 10000 > 175 * start /\ ratioOk THEN "BULLISH"
            ELSE CumulativeMove(q, p, windowSize + 1)
    ELSE CumulativeMove(q, p, windowSize + 1)

\* The pass of the scan that accepts a candidate whatever its volume.
CandleVerdictAnyVolume(q, p) ==
    LET candle == q.tail[p]
        candleBreakout == detectBreakout(candle.close, q.resistance,
                                         q.support, breakoutBuffer)
        candleVolumeSpike == isVolumeSpike(candle.volume, q.avgVolume,
                                           volumeMultiplier)
        largeMoveType == LargeMove(q, p, candleVolumeSpike)
        cumulativeMoveType == CumulativeMove(q, p, 2)
        signalType == IF candleBreakout # "none" THEN candleBreakout
                      ELSE IF largeMoveType # "none" THEN largeMoveType
                      ELSE cumulativeMoveType
    IN IF signalType # "none"
       THEN IF signalType = "BULLISH" /\ currentPrice(q) > q.support
            THEN "BULLISH"
            ELSE IF signalType = "BEARISH" /\ currentPrice(q) < q.resistance
            THEN "BEARISH"
            ELSE "none"
       ELSE "none"

\* One pass of the scan's loop body for the candle at p: the direction it
\* is accepted with, or none.
CandleVerdict(q, p) ==
    LET candle == q.tail[p]
        candleBreakout == detectBreakout(candle.close, q.resistance,
                                         q.support, breakoutBuffer)
        candleVolumeSpike == isVolumeSpike(candle.volume, q.avgVolume,
                                           volumeMultiplier)
        largeMoveType == LargeMove(q, p, candleVolumeSpike)
        cumulativeMoveType == CumulativeMove(q, p, 2)
        signalType == IF candleBreakout # "none" THEN candleBreakout
                      ELSE IF largeMoveType # "none" THEN largeMoveType
                      ELSE cumulativeMoveType
        volumeOK == candleVolumeSpike \/ cumulativeMoveType # "none"
    IN IF signalType # "none" /\ volumeOK
       THEN IF signalType = "BULLISH" /\ currentPrice(q) > q.support
            THEN "BULLISH"
            ELSE IF signalType = "BEARISH" /\ currentPrice(q) < q.resistance
            THEN "BEARISH"
            ELSE "none"
       ELSE "none"

\* The scan from the candle at p back to the oldest of the last
\* min(5, length) candles: the first candle accepted and its direction.
RECURSIVE Scan(_, _)
Scan(q, p) ==
    IF p < Len(q.tail) - Min(5, q.len) + 1 \/ p < 1
    THEN [type |-> "none", pos |-> 0]
    ELSE IF CandleVerdict(q, p) # "none"
    THEN [type |-> CandleVerdict(q, p), pos |-> p]
    ELSE Scan(q, p - 1)

\* What generateSignal returns: a signal built by the breakout path or by
\* the trend-following path, or null with the check that ended the call.
NoSignal(why) == [kind |-> "none", path |-> "-", why |-> why,
                  signal |-> Absent]
Built(path, s, breakout, q) ==
    [kind |-> "signal", path |-> path, why |-> "-",
     signal |-> Signal(s, IF breakout = "BULLISH" THEN BUY ELSE SELL,
                       currentPrice(q))]

\* The RSI veto with the two directions exchanged.
RsiRejectsSwapped(breakout, rsi) ==
    \/ breakout = "BEARISH" /\ rsi > RSI_OVERBOUGHT
    \/ breakout = "BULLISH" /\ rsi < RSI_OVERSOLD

\* The RSI filter: overbought longs and oversold shorts are rejected.
RsiRejects(breakout, rsi) ==
    \/ breakout = "BULLISH" /\ rsi > RSI_OVERBOUGHT
    \/ breakout = "BEARISH" /\ rsi < RSI_OVERSOLD

\* The rejection filters an accepted candle goes through, in the code's
\* order, and the signal built when none rejects.  (calculateRSI and
\* calculateATR have their 15 candles: isEmaAligned passed, on 50 or more.)
BreakoutFilters(q, s, breakout, trend, priceStructure) ==
    IF breakout = "BULLISH" /\ trend # "UPTREND" THEN NoSignal("trend")
    ELSE IF breakout = "BEARISH" /\ trend # "DOWNTREND" THEN NoSignal("trend")
    ELSE IF ~isEmaAligned(q.len, breakout, q.emaAligned) THEN NoSignal("ema")
    ELSE IF breakout = "BULLISH" /\ priceStructure = "LOWER_LOWS"
    THEN NoSignal("structure")
    ELSE IF breakout = "BEARISH" /\ priceStructure = "HIGHER_HIGHS"
    THEN NoSignal("structure")
    ELSE IF priceStructure = "CHOPPY" THEN NoSignal("choppy")
    ELSE IF RsiRejects(breakout, q.rsi) THEN NoSignal("rsi")
    ELSE Built("breakout", s, breakout, q)

\* The trend history that only grows.
UpdatedTrendHistoryUnbounded(readings, trend) == Append(readings, trend)

\* updateTrendHistory: the readings after trend is appended, at most 10.
UpdatedTrendHistory(readings, trend) ==
    LET pushed == Append(readings, trend)
    IN IF Len(pushed) > 10 THEN Tail(pushed) ELSE pushed

hasConsecutiveTrend(readings, expectedTrend, minConsecutive) ==
    /\ Len(readings) >= minConsecutive
    /\ \A i \in (Len(readings) - minConsecutive + 1)..Len(readings) :
         readings[i] = expectedTrend

\* generateTrendFollowingSignal after updateTrendHistory: readings is the
\* trend history with this call's reading appended.
TrendFollowing(q, s, readings, priceStructure) ==
    IF q.len < trendFollowingSmaPeriod THEN NoSignal("follow")
    ELSE IF q.tail[Len(q.tail)].volume * 10 < q.avgVolume * volumeMultiplier
    THEN NoSignal("follow")
    ELSE IF /\ hasConsecutiveTrend(readings, "DOWNTREND",
                                   trendFollowingMinConsecutiveTrends)
            /\ q.smaSide = "below" /\ q.nearHigh
            /\ priceStructure = "LOWER_LOWS"
    THEN Built("trend", s, "BEARISH", q)
    ELSE IF /\ hasConsecutiveTrend(readings, "UPTREND",
                                   trendFollowingMinConsecutiveTrends)
            /\ q.smaSide = "above" /\ q.nearLow
            /\ priceStructure = "HIGHER_HIGHS"
    THEN Built("trend", s, "BULLISH", q)
    ELSE NoSignal("follow")

\* The trend reading of the call, or Insufficient when detectTrend raises.
TrendOf(q) == detectTrend(q.len, 50, q.ranging, q.halves, q.emaStack)

\* True when the call reaches generateTrendFollowingSignal.
ReachesTrendFollowing(q) ==
    /\ q.len >= lookbackPeriod + 1
    /\ q.support > 0 /\ q.resistance > 0 /\ q.support < q.resistance
    /\ TrendOf(q) # "Insufficient data"
    /\ Scan(q, Len(q.tail)).type = "none"
    /\ q.enableTrendFollowing

\* generateSignal from the try block on: support and resistance (which
\* raise on fewer than lookbackPeriod + 1 candles) and their validation,
\* the trend and the structure, the scan, then the filters or the
\* trend-following attempt.  An exception is caught and null returned.
CandleAnalysis(q, s, readings) ==
    IF q.len < lookbackPeriod + 1 THEN NoSignal("error")
    ELSE IF ~(q.support > 0 /\ q.resistance > 0 /\ q.support < q.resistance)
    THEN NoSignal("levels")
    ELSE LET trend == TrendOf(q)
             priceStructure == detectPriceStructure(q.len, 10, q.halves)
             found == Scan(q, Len(q.tail))
         IN IF trend = "Insufficient data" THEN NoSignal("error")
            ELSE IF found.type # "none"
            THEN BreakoutFilters(q, s, found.type, trend, priceStructure)
            ELSE IF q.enableTrendFollowing
            THEN TrendFollowing(q, s, UpdatedTrendHistory(readings, trend),
                                priceStructure)
            ELSE NoSignal("nocandidate")

\* generateSignal(symbol) on the history the query describes: the checks
\* before the analysis, then the analysis.
generateSignal(s) ==
    /\ query.fn = "generateSignal"
    /\ answer = NoAnswer
    /\ LET gate == GenerateGate(s, Len(priceHistory[s]) >= lookbackPeriod) IN
       /\ answer' = IF gate = "evaluate"
                    THEN CandleAnalysis(query, s, trendHistory[s])
                    ELSE NoSignal(gate)
       /\ trendHistory' =
            IF gate = "evaluate" /\ ReachesTrendFollowing(query)
            THEN [trendHistory EXCEPT
                    ![s] = UpdatedTrendHistory(@, TrendOf(query))]
            ELSE trendHistory
       /\ stopLossCooldowns' = CooldownsAfterGenerate(s, gate)
    /\ UNCHANGED <<loopVars, historyVars, query, now, configVars, activeSignals,
                   trailingStops, recentlyClosedPositions, positions,
                   resting, main, closer, logVars, event>>

\* Histories the analysis is run on.  The candles before the newest three
\* are flat; resistance and support bound the closes of every candle but
\* the newest (they are the extremes of the lookbackPeriod candles before
\* it), and avgVolume is the mean of the last 20 volumes.
FlatCandles(n, close, volume) == [i \in 1..n |-> Candle(close, volume)]

\* Lengths a history can have: what the backfill loaded or, after a
\* refresh, at most maxHistory.
HistoryLengths == {30, 60, 250}
RsiValues == {25, 30, 55, 70, 75}
TrendReadings == {<< >>, [i \in 1..10 |-> "UPTREND"], <<"DOWNTREND", "DOWNTREND">>}

\* A close 0.2% above resistance (below support) on twice the average
\* volume after flat candles, and flat candles ending on a quiet or on a
\* heavy candle.
FilterLevels ==
    {[tail |-> FlatCandles(8, 9900, 100) \o <<Candle(10020, 800)>>,
      resistance |-> 10000, support |-> 9500, avgVolume |-> 400],
     [tail |-> FlatCandles(8, 9600, 100) \o <<Candle(9480, 800)>>,
      resistance |-> 10000, support |-> 9500, avgVolume |-> 400],
     [tail |-> FlatCandles(8, 9900, 100) \o <<Candle(9900, 800)>>,
      resistance |-> 10000, support |-> 9500, avgVolume |-> 400],
     [tail |-> FlatCandles(9, 9900, 100),
      resistance |-> 10000, support |-> 9500, avgVolume |-> 400]}

\* Six flat candles, then three candles of any of these closes and volumes.
ScanCandles ==
    {Candle(c, v) : c \in {9800, 10000, 10100, 10210}, v \in {60, 100, 900}}
ScanLevels ==
    {[tail |-> FlatCandles(6, 10000, 100) \o <<c1, c2, c3>>,
      resistance |-> r, support |-> sp, avgVolume |-> 400] :
       c1 \in ScanCandles, c2 \in ScanCandles, c3 \in ScanCandles,
       r \in {10150, 10300}, sp \in {9700, 9900}}

FollowOff == [enableTrendFollowing |-> FALSE, smaSide |-> "above",
              nearHigh |-> FALSE, nearLow |-> FALSE]
FollowChoices ==
    {FollowOff} \cup
    {[enableTrendFollowing |-> TRUE, smaSide |-> sd, nearHigh |-> n,
      nearLow |-> n] : sd \in {"above", "below"}, n \in BOOLEAN}

Query(len, levels, ranging, halves, emaStack, emaAligned, rsi, follow) ==
    [fn |-> "generateSignal", len |-> len, tail |-> levels.tail,
     resistance |-> levels.resistance, support |-> levels.support,
     avgVolume |-> levels.avgVolume, ranging |-> ranging, halves |-> halves,
     emaStack |-> emaStack, emaAligned |-> emaAligned, rsi |-> rsi,
     enableTrendFollowing |-> follow.enableTrendFollowing,
     smaSide |-> follow.smaSide, nearHigh |-> follow.nearHigh,
     nearLow |-> follow.nearLow]

FilterQueries ==
    {Query(len, lv, rg, hv, es, ea, rsi, fw) :
       len \in HistoryLengths, lv \in FilterLevels, rg \in BOOLEAN,
       hv \in {"HIGHER", "LOWER", "MIXED"},
       es \in {"bull", "bear", "mixed"}, ea \in {"bull", "bear", "mixed"},
       rsi \in RsiValues, fw \in FollowChoices}

ScanQueries ==
    {Query(250, lv, FALSE, f[1], f[2], f[2], 55, FollowOff) :
       lv \in {l \in ScanLevels :
                 \A p \in 1..(Len(l.tail) - 1) :
                    /\ l.tail[p].close <= l.resistance
                    /\ l.tail[p].close >= l.support},
       f \in {<<"HIGHER", "bull">>, <<"LOWER", "bear">>}}

\* A strategy holding a history of the query's length, with no position,
\* about to analyse it, with a take-profit configured or not.
SignalInit ==
    /\ BotInit
    /\ LoopIdle
    /\ telegram = FALSE
    /\ \A s \in Symbols : positions[s] = Absent
    /\ isRunning = TRUE
    /\ lookbackPeriod \in {10, 125}
    /\ query \in FilterQueries \cup ScanQueries
    /\ query.len <= Max(100, lookbackPeriod * 2)
    /\ candleClock = query.len
    /\ priceHistory = [s \in Symbols |-> [i \in 1..query.len |-> i]]
    /\ lastCandleTimestamp = [s \in Symbols |-> query.len]
    /\ answer = NoAnswer
    /\ trendHistory \in [Symbols -> IF query.enableTrendFollowing
                                    THEN TrendReadings ELSE {<< >>}]

SignalNext == \E s \in Symbols : generateSignal(s)

SignalSpec == SignalInit /\ [][SignalNext]_vars

(* --------------------------- indicator calls --------------------------- *)

\* What a call returns: a value, or the insufficient-data Error it raises.
Value(v) == [kind |-> "value", value |-> v]
Raise == [kind |-> "raise", value |-> "Insufficient data"]

\* Decimal.max and Decimal.min of the values of a non-empty sequence.
DecimalMax(values) ==
    CHOOSE v \in {values[i] : i \in 1..Len(values)} :
       \A i \in 1..Len(values) : values[i] <= v
DecimalMin(values) ==
    CHOOSE v \in {values[i] : i \in 1..Len(values)} :
       \A i \in 1..Len(values) : values[i] >= v

\* prices.slice(-lookbackPeriod - 1, -1).
BeforeCurrent(prices, lookback) ==
    SubSeq(prices, Len(prices) - lookback, Len(prices) - 1)

\* The resistance with the current candle inside the window:
\* prices.slice(-lookbackPeriod).
calculateResistanceWithCurrent(prices, lookback) ==
    IF Len(prices) < lookback + 1 THEN Raise
    ELSE LET recentPrices == SubSeq(prices, Len(prices) - lookback + 1,
                                    Len(prices))
         IN Value(DecimalMax([i \in 1..Len(recentPrices) |->
                                 recentPrices[i].high]))

calculateResistance(prices, lookback) ==
    IF Len(prices) < lookback + 1 THEN Raise
    ELSE LET recentPrices == BeforeCurrent(prices, lookback)
         IN Value(DecimalMax([i \in 1..Len(recentPrices) |->
                                 recentPrices[i].high]))

calculateSupport(prices, lookback) ==
    IF Len(prices) < lookback + 1 THEN Raise
    ELSE LET recentPrices == BeforeCurrent(prices, lookback)
         IN Value(DecimalMin([i \in 1..Len(recentPrices) |->
                                 recentPrices[i].low]))

\* The close-to-close changes of a history, as gains and as losses.
Gains(prices) ==
    [i \in 1..(Len(prices) - 1) |->
       IF prices[i + 1].close - prices[i].close > 0
       THEN prices[i + 1].close - prices[i].close ELSE 0]
Losses(prices) ==
    [i \in 1..(Len(prices) - 1) |->
       IF prices[i + 1].close - prices[i].close > 0
       THEN 0 ELSE prices[i].close - prices[i + 1].close]

RECURSIVE Power(_, _)
Power(b, e) == IF e = 0 THEN 1 ELSE b * Power(b, e - 1)

RECURSIVE SumTo(_, _)
SumTo(values, n) == IF n = 0 THEN 0 ELSE values[n] + SumTo(values, n - 1)

\* Wilder's average of values[1..i] over periods, as the numerator of the
\* fraction with denominator periods^(i - periods + 1): the mean of the
\* first periods values, then avg = (avg * (periods - 1) + value) / periods.
RECURSIVE Wilder(_, _, _)
Wilder(values, periods, i) ==
    IF i = periods THEN SumTo(values, periods)
    ELSE Wilder(values, periods, i - 1) * (periods - 1)
         + values[i] * Power(periods, i - periods)

\* 100 - 100 / (1 + avgGain / avgLoss), as a fraction; 100 when avgLoss is
\* zero.  avgGain and avgLoss are numerators over one denominator.
RsiOf(avgGain, avgLoss) ==
    IF avgLoss = 0 THEN Value([num |-> 100, den |-> 1])
    ELSE Value([num |-> 100 * avgGain, den |-> avgGain + avgLoss])

\* calculateRSI with Wilder's smoothing over all the changes of the history.
calculateRSI(prices, periods) ==
    IF Len(prices) < periods + 1 THEN Raise
    ELSE RsiOf(Wilder(Gains(prices), periods, Len(prices) - 1),
               Wilder(Losses(prices), periods, Len(prices) - 1))

\* calculateRSI of core/indicators: the means of the last periods changes.
calculateRSIRecent(prices, periods) ==
    IF Len(prices) < periods + 1 THEN Raise
    ELSE LET n == Len(prices) - 1 IN
         RsiOf(SumTo(Gains(prices), n) - SumTo(Gains(prices), n - periods),
               SumTo(Losses(prices), n) - SumTo(Losses(prices), n - periods))

\* The result of the call the query names.
Result(q) ==
    CASE q.fn = "calculateResistance" ->
           calculateResistance(q.prices, q.lookbackPeriod)
      [] q.fn = "calculateSupport" ->
           calculateSupport(q.prices, q.lookbackPeriod)
      [] q.fn = "calculateRSI" -> calculateRSI(q.prices, q.periods)
      [] q.fn = "calculateRSIRecent" ->
           calculateRSIRecent(q.prices, q.periods)
      [] q.fn = "detectBreakout" ->
           Value(detectBreakout(q.price, q.resistance, q.support, q.buffer))
      [] q.fn = "detectTrend" ->
           LET trend == detectTrend(q.len, q.longPeriod, q.ranging, q.halves,
                                    q.emaStack)
           IN IF trend = "Insufficient data" THEN Raise ELSE Value(trend)
      [] q.fn = "detectPriceStructure" ->
           Value(detectPriceStructure(q.len, q.lookback, q.halves))
      [] q.fn = "isEmaAligned" ->
           Value(isEmaAligned(q.len, q.direction, q.emaOrder))

\* A caller evaluates the indicator fn on the query's arguments.
Call(fn) ==
    /\ query.fn = fn
    /\ answer = NoAnswer
    /\ answer' = Result(query)
    /\ UNCHANGED <<loopVars, botVars, historyVars, query, trendHistory>>

\* Candle sequences of up to MaxPrices candles; windows of 1..MaxWindow.
MaxPrices == 4
MaxWindow == 3
RECURSIVE SeqsUpTo(_, _)
SeqsUpTo(S, n) ==
    IF n = 0 THEN {<< >>}
    ELSE SeqsUpTo(S, n - 1) \cup
         {Append(sq, x) : sq \in {t \in SeqsUpTo(S, n - 1) : Len(t) = n - 1},
                          x \in S}

LevelQueries ==
    {[fn |-> f, prices |-> ps, lookbackPeriod |-> n] :
       f \in {"calculateResistance", "calculateSupport"},
       ps \in SeqsUpTo({[high |-> 12, low |-> 10], [high |-> 14, low |-> 11],
                        [high |-> 16, low |-> 9]}, MaxPrices),
       n \in 1..MaxWindow}

RsiQueries ==
    {[fn |-> f, prices |-> ps, periods |-> n] :
       f \in {"calculateRSI", "calculateRSIRecent"},
       ps \in SeqsUpTo({[close |-> 10], [close |-> 11], [close |-> 13]},
                       MaxPrices + 1),
       n \in 1..MaxWindow}

\* Prices around the two boundaries, for buffers of 0, 0.001 and 0.01.
BreakoutQueries ==
    {[fn |-> "detectBreakout", price |-> p, resistance |-> lv[1],
      support |-> lv[2], buffer |-> b] :
       p \in {980, 989, 990, 991, 998, 999, 1000, 1001, 1500, 1999, 2000,
              2001, 2002, 2003, 2019, 2020, 2021},
       lv \in {<<2000, 1000>>, <<1000, 2000>>, <<1000, 1000>>},
       b \in {0, 1, 10}}

\* Histories by their length, around the windows the three functions need.
FactQueries ==
    {[fn |-> "detectTrend", len |-> n, longPeriod |-> 50, ranging |-> rg,
      halves |-> hv, emaStack |-> es] :
       n \in {0, 14, 20, 49, 50, 199, 200}, rg \in BOOLEAN,
       hv \in {"HIGHER", "LOWER", "MIXED"}, es \in {"bull", "bear", "mixed"}}
    \cup
    {[fn |-> "detectPriceStructure", len |-> n, lookback |-> 10,
      halves |-> hv] :
       n \in {0, 19, 20, 50}, hv \in {"HIGHER", "LOWER", "MIXED"}}
    \cup
    {[fn |-> "isEmaAligned", len |-> n, direction |-> d, emaOrder |-> eo] :
       n \in {0, 49, 50, 200}, d \in {"BULLISH", "BEARISH"},
       eo \in {"bull", "bear", "mixed"}}

IndicatorInit ==
    /\ BotInit
    /\ LoopIdle
    /\ telegram = FALSE
    /\ takeProfitPercent = 0
    /\ \A s \in Symbols : positions[s] = Absent
    /\ HistoryIdle
    /\ query \in LevelQueries \cup RsiQueries \cup BreakoutQueries
                 \cup FactQueries
    /\ answer = NoAnswer
    /\ trendHistory = [s \in Symbols |-> << >>]

IndicatorNext ==
    \/ Call("calculateResistance")
    \/ Call("calculateSupport")
    \/ Call("calculateRSI")
    \/ Call("calculateRSIRecent")
    \/ Call("detectBreakout")
    \/ Call("detectTrend")
    \/ Call("detectPriceStructure")
    \/ Call("isEmaAligned")

IndicatorSpec == IndicatorInit /\ [][IndicatorNext]_vars

(* ------------------------------ portfolio ------------------------------ *)

\* The main loop over several trading pairs: which pairs hold a position,
\* which have an entry order resting, which the strategy has an active
\* signal for.  What generateSignal answers for a pair is an input here.

\* The first pairs of the default config.tradingPairs.
tradingPairs == <<"BTC", "ETH", "SOL", "AVAX">>

\* RiskManager.canOpenPosition(positions, balance, requiredMargin): a
\* stateless check of the position count it is handed and of the margin and
\* the daily loss (riskOk).
canOpenPosition(heldPositions, riskOk) ==
    Cardinality(heldPositions) < maxPositions /\ riskOk

\* A failure raised in the body of a loop is caught inside the body (by
\* the try of the body or of the method it calls) and logged: the loop goes
\* on with the frame `rest`.  Rethrown is the body without its catch: the
\* failure reaches the try around the whole loop, which ends the tick.
Rethrown(frame, rest) ==
    [frame EXCEPT !.pc = "idle", !.idx = 0, !.failed = TRUE]
Caught(frame, rest) == [rest EXCEPT !.failed = TRUE]

\* mainLoop up to its loops: the positions are queried once; the risk
\* manager can stop the bot; else the price histories are refreshed.
LoopStart ==
    /\ isRunning
    /\ loop.pc = "idle"
    /\ \E ok \in BOOLEAN, shouldStopTrading \in BOOLEAN :
         IF ~ok THEN UNCHANGED <<isRunning, loop>>
         ELSE IF shouldStopTrading
         THEN isRunning' = FALSE /\ UNCHANGED loop
         ELSE /\ loop' = [pc |-> "refresh", snapshot |-> openPositions,
                          idx |-> 1, failed |-> FALSE]
              /\ UNCHANGED isRunning
    /\ UNCHANGED <<openPositions, entryOrders, signalled, trail>>
    /\ UNCHANGED <<botVars, indicatorVars, candleClock, lookbackPeriod,
                   priceHistory, lastCandleTimestamp>>

\* The body of the refresh loop for one pair: updatePriceHistory, which can
\* fail.  After the last pair the signal loop is entered when the queried
\* positions are fewer than maxPositions.
LoopRefresh ==
    /\ loop.pc = "refresh"
    /\ \E raised \in BOOLEAN :
         LET rest == IF loop.idx + 1 <= Len(tradingPairs)
                     THEN [loop EXCEPT !.idx = loop.idx + 1, !.failed = FALSE]
                     ELSE IF Cardinality(loop.snapshot) < maxPositions
                     THEN [loop EXCEPT !.pc = "pairs", !.idx = 1,
                                       !.failed = FALSE]
                     ELSE IdleLoop
         IN loop' = IF raised THEN Caught(loop, rest) ELSE rest
    /\ UNCHANGED <<openPositions, entryOrders, signalled, trail>>
    /\ UNCHANGED <<botVars, historyVars, indicatorVars>>

\* The body of the signal loop for one pair: a pair of the queried
\* positions is skipped; a signal that passes canOpenPosition on the queried
\* positions is executed.  executeSignal returns on an active signal,
\* registers the signal when the exchange already holds a position for the
\* pair, and else places the entry order (orderOk) and registers the signal.
\* The risk manager can raise (raised); placeOrder can (orderOk is FALSE).
LoopPair ==
    /\ loop.pc = "pairs"
    /\ LET symbol == tradingPairs[loop.idx] IN
       \E signal \in BOOLEAN, riskOk \in BOOLEAN, orderOk \in BOOLEAN,
          raised \in BOOLEAN :
         LET generated == signal /\ symbol \notin loop.snapshot
                                 /\ symbol \notin signalled
             executed == generated /\ ~raised
                                   /\ canOpenPosition(loop.snapshot, riskOk)
             exists == symbol \in openPositions
             failure == generated /\ (raised \/ (executed /\ ~exists
                                                           /\ ~orderOk))
             rest == IF loop.idx + 1 > Len(tradingPairs) THEN IdleLoop
                     ELSE [loop EXCEPT !.idx = loop.idx + 1, !.failed = FALSE]
         IN /\ entryOrders' = IF executed /\ ~exists /\ orderOk
                              THEN entryOrders \cup {symbol} ELSE entryOrders
            /\ signalled' = IF executed /\ (exists \/ orderOk)
                            THEN signalled \cup {symbol} ELSE signalled
            /\ loop' = IF failure THEN Caught(loop, rest) ELSE rest
    /\ UNCHANGED <<openPositions, trail>>
    /\ UNCHANGED <<botVars, historyVars, indicatorVars>>

\* updateTrailingStops queries the positions; a failed query ends the tick.
TrailStart ==
    /\ isRunning
    /\ trail.pc = "idle"
    /\ \E ok \in BOOLEAN :
         LET held == SelectSeq(tradingPairs, LAMBDA x : x \in openPositions)
         IN trail' = IF ok /\ Len(held) > 0
                     THEN [pc |-> "positions", snapshot |-> held, idx |-> 1,
                           failed |-> FALSE]
                     ELSE [IdleLoop EXCEPT !.snapshot = << >>, !.failed = ~ok]
    /\ UNCHANGED <<openPositions, entryOrders, signalled, loop>>
    /\ UNCHANGED <<botVars, historyVars, indicatorVars>>

\* The body of updateTrailingStops for one reported position: when its stop
\* or its take-profit is hit (hit), closePosition queries the positions
\* (queryOk) and, the position still being there, sends the close order
\* (orderOk), drops the signal and the position closes.
TrailPosition ==
    /\ trail.pc = "positions"
    /\ LET symbol == trail.snapshot[trail.idx] IN
       \E hit \in BOOLEAN, queryOk \in BOOLEAN, orderOk \in BOOLEAN :
         LET found == queryOk /\ symbol \in openPositions
             closed == hit /\ found /\ orderOk
             failure == hit /\ (~queryOk \/ (found /\ ~orderOk))
             rest == IF trail.idx + 1 > Len(trail.snapshot)
                     THEN [IdleLoop EXCEPT !.snapshot = << >>]
                     ELSE [trail EXCEPT !.idx = trail.idx + 1,
                                        !.failed = FALSE]
         IN /\ openPositions' = IF closed THEN openPositions \ {symbol}
                                ELSE openPositions
            /\ signalled' = IF closed THEN signalled \ {symbol}
                            ELSE signalled
            /\ trail' = IF failure THEN Caught(trail, rest) ELSE rest
    /\ UNCHANGED <<entryOrders, loop>>
    /\ UNCHANGED <<botVars, historyVars, indicatorVars>>

\* The exchange fills a resting entry order: the position opens.
EntryFilled(symbol) ==
    /\ symbol \in entryOrders
    /\ entryOrders' = entryOrders \ {symbol}
    /\ openPositions' = openPositions \cup {symbol}
    /\ UNCHANGED <<signalled, loop, trail>>
    /\ UNCHANGED <<botVars, historyVars, indicatorVars>>

\* closePosition closes the position of a pair and drops its signal.
PositionClosed(symbol) ==
    /\ isRunning
    /\ symbol \in openPositions
    /\ openPositions' = openPositions \ {symbol}
    /\ signalled' = signalled \ {symbol}
    /\ UNCHANGED <<entryOrders, loop, trail>>
    /\ UNCHANGED <<botVars, historyVars, indicatorVars>>

PortfolioNext ==
    \/ LoopStart
    \/ LoopRefresh
    \/ LoopPair
    \/ \E i \in 1..Len(tradingPairs) : EntryFilled(tradingPairs[i])
    \/ \E i \in 1..Len(tradingPairs) : PositionClosed(tradingPairs[i])

PortfolioSpec == Init /\ [][PortfolioNext]_vars

\* The two timers over several pairs: mainLoop and updateTrailingStops
\* with the failures of their external calls, against an exchange that
\* fills the entry orders.
BatchNext ==
    \/ LoopStart
    \/ LoopRefresh
    \/ LoopPair
    \/ TrailStart
    \/ TrailPosition
    \/ \E i \in 1..Len(tradingPairs) : EntryFilled(tradingPairs[i])

\* No sink, no take-profit, and no position at the exchange at start.
BatchInit ==
    /\ Init
    /\ telegram = FALSE
    /\ takeProfitPercent = 0
    /\ \A s \in Symbols : positions[s] = Absent

BatchSpec == BatchInit /\ [][BatchNext]_vars

(* ------------- price history under arbitrary fetched batches ---------- *)

\* Candle timestamps a fetched batch can hold.
MaxStamp == 6

\* What a fetch can return: any candles, oldest first, none twice; the
\* batch may hold candles older than, equal to or newer than the stored.
AscendingBatches ==
    LET RECURSIVE Ascending(_)
        Ascending(stamps) ==
          IF stamps = {} THEN << >>
          ELSE LET oldest == CHOOSE x \in stamps : \A y \in stamps : x <= y
               IN <<oldest>> \o Ascending(stamps \ {oldest})
    IN {Ascending(stamps) : stamps \in SUBSET (1..MaxStamp)}

\* The public initializeWithHistoricalData called with a fetched batch.
initializeWithHistoricalData(s, historicalData) ==
    /\ priceHistory' = InitializedHistory(s, historicalData)
    /\ lastCandleTimestamp' = InitializedTimestamp(s, historicalData)
    /\ UNCHANGED <<loopVars, botVars, indicatorVars, isRunning, candleClock,
                   lookbackPeriod>>

\* updatePriceHistory whose fetch returned recentCandles.
updatePriceHistoryWith(s, recentCandles) ==
    /\ IF Len(recentCandles) = 0
       THEN UNCHANGED <<priceHistory, lastCandleTimestamp>>
       ELSE LET added == NewCandles(s, recentCandles)
                history == priceHistory[s] \o added
            IN /\ priceHistory' =
                     [priceHistory EXCEPT ![s] = Spliced(history)]
               /\ lastCandleTimestamp' =
                     IF Len(added) > 0
                     THEN [lastCandleTimestamp EXCEPT
                             ![s] = added[Len(added)]]
                     ELSE lastCandleTimestamp
    /\ UNCHANGED <<loopVars, botVars, indicatorVars, isRunning, candleClock,
                   lookbackPeriod>>

\* Any caller, any order of the two calls, any batches.
CallNext ==
    \/ \E s \in Symbols, batch \in AscendingBatches :
         initializeWithHistoricalData(s, batch)
    \/ \E s \in Symbols, batch \in AscendingBatches :
         updatePriceHistoryWith(s, batch)

CallSpec == HistoryInit /\ [][CallNext]_vars

(* ------------------ price history with the forming candle -------------- *)

\* What the exchange lists for a candle: a closed candle has its final
\* close and volume; the newest candle is still forming and is listed with
\* what it has traded so far.
FormingValues == {[close |-> 99, volume |-> 10], [close |-> 101, volume |-> 20]}
ClosedValue == [close |-> 100, volume |-> 30]

\* getHistoricalCandles(symbol, '5m', limit) as PriceData: the newest limit
\* candles, oldest first, the last of them forming with value forming.
getPriceData(limit, forming) ==
    [i \in 1..Min(limit, candleClock) |->
       LET t == candleClock - Min(limit, candleClock) + i
           value == IF t = candleClock THEN forming ELSE ClosedValue
       IN [timestamp |-> t, close |-> value.close, volume |-> value.volume]]

\* updatePriceHistory on candles with their values: the fetch is kept in
\* query for comparison with what is stored.
updatePriceHistoryData(s) ==
    /\ \E forming \in FormingValues, ok \in BOOLEAN :
         LET recentCandles == IF ok THEN getPriceData(5, forming) ELSE << >>
             added == SelectSeq(recentCandles,
                        LAMBDA c : c.timestamp > lastCandleTimestamp[s])
             history == priceHistory[s] \o added
         IN /\ query' = [fn |-> "updatePriceHistory",
                         recentCandles |-> recentCandles]
            /\ IF Len(recentCandles) = 0
               THEN UNCHANGED <<priceHistory, lastCandleTimestamp>>
               ELSE /\ priceHistory' =
                         [priceHistory EXCEPT ![s] = Spliced(history)]
                    /\ lastCandleTimestamp' =
                         IF Len(added) > 0
                         THEN [lastCandleTimestamp EXCEPT
                                 ![s] = added[Len(added)].timestamp]
                         ELSE lastCandleTimestamp
    /\ UNCHANGED <<loopVars, botVars, answer, trendHistory, isRunning,
                   candleClock, lookbackPeriod>>

\* Refreshes of the history while the exchange closes candles.
FormingNext ==
    \/ CandleClose
    \/ \E s \in Symbols : updatePriceHistoryData(s)

FormingSpec == HistoryInit /\ [][FormingNext]_vars

(* ------------- BreakoutStrategy.executeSignal, tiered variant ---------- *)

\* executeSignal of the tiered variant resumes from placeOrder: the signal
\* is registered, a tracker only "if (signal.side === OrderSide.BUY)", and
\* the opening is notified; or the catch block runs.
ExecOrderTiered(m) ==
    /\ main[m].pc = "exec_order"
    /\ LET symbol == SymbolSeq[main[m].idx]
           signal == main[m].sig
       IN
       IF main[m].accepted
       THEN /\ activeSignals' = [activeSignals EXCEPT ![symbol] = signal]
            /\ trailingStops' =
                 IF signal.side = BUY
                 THEN [trailingStops EXCEPT
                         ![symbol] = [high |-> signal.entryPrice,
                                      stop |-> signal.stopLoss]]
                 ELSE trailingStops
            /\ \E delivered \in IF telegram THEN BOOLEAN ELSE {TRUE} :
                 event' =
                   IF sendMessage(delivered) = "resolved"
                   THEN [Ev("exec", symbol, "registered") EXCEPT
                           !.notify = IF telegram THEN "opened" ELSE "none",
                           !.sink = IF ~telegram THEN "-"
                                    ELSE IF delivered THEN "delivered"
                                    ELSE "failed"]
                   ELSE [Ev("exec", symbol, "failed") EXCEPT
                           !.fail = TRUE, !.notify = "error",
                           !.sink = "failed"]
       ELSE /\ event' = [Ev("exec", symbol, "failed") EXCEPT
                           !.fail = TRUE,
                           !.notify = IF telegram THEN "error" ELSE "none"]
            /\ UNCHANGED <<activeSignals, trailingStops>>
    /\ main' = [main EXCEPT ![m] = MainAdvance(@)]
    /\ UNCHANGED <<historyVars, indicatorVars, loopVars>>
    /\ UNCHANGED <<now, configVars, stopLossCooldowns, recentlyClosedPositions,
                   positions, resting, closer, logVars>>

\* mainLoop driving the tiered variant's executeSignal, with the exchange
\* filling the orders it sent and positions closing on the exchange.
TieredNext ==
    \/ MainStart("main1")
    \/ MainSymbol("main1")
    \/ ExecPositions("main1")
    \/ ExecOrderTiered("main1")
    \/ \E s \in Symbols, side \in OrderSide : Fill(s, side)
    \/ \E s \in Symbols : PositionGone(s)

TieredSpec == Init /\ [][TieredNext]_vars

(* ------------------------------- claims -------------------------------- *)

\* C1: while a tracked position stays open, the stored stop only moves in
\* the position's favour from one tick to the next: the stop a tick leaves
\* is never below the stop the tick before left for a long, and never
\* above it for a short, whatever the mark prices.
C1_StopOnlyMovesFavourably ==
    [][\A s \in Symbols :
         tickStop[s] # Absent /\ tickStop'[s] # Absent =>
           IF positions[s].side = BUY
           THEN tickStop'[s].stop >= tickStop[s].stop
           ELSE tickStop'[s].stop <= tickStop[s].stop]_vars

\* C2: after a stop-loss close of a symbol at time T, a generateSignal call
\* for it at t with t - T < 15 minutes returns none; a call at
\* t - T >= 15 minutes that reaches the cooldown check is not blocked by
\* it, and leaves no cooldown entry for the symbol.
C2_CooldownBlocksThenExpires ==
    [][\A s \in Symbols :
         event'.op = "gen" /\ event'.sym = s /\ stopCloseAt[s] # NoTime =>
           /\ now - stopCloseAt[s] < STOP_LOSS_COOLDOWN_MS =>
                event'.res # "signal"
           /\ now - stopCloseAt[s] >= STOP_LOSS_COOLDOWN_MS
                 /\ event'.res \notin {"history", "active"} =>
                /\ event'.res \in {"nosignal", "signal"}
                /\ stopLossCooldowns'[s] = NoTime]_vars

\* generateSignal returned a signal 15 minutes or more after a stop-loss
\* close, and the cooldown entry is gone.
C2_Witness ==
    \E s \in Symbols :
        /\ event.op = "gen" /\ event.sym = s /\ event.res = "signal"
        /\ stopCloseAt[s] # NoTime
        /\ now - stopCloseAt[s] >= STOP_LOSS_COOLDOWN_MS
        /\ stopLossCooldowns[s] = NoTime

\* C3: no entry order is sent for a symbol that has an active signal
\* registered, and two overlapping executeSignal calls for a symbol never
\* both send an entry order.
C3_NoEntryOrderWhileActive ==
    /\ \A s \in Symbols :
         event.order = "entry" /\ event.sym = s => activeSignals[s] = Absent
    /\ \A m1, m2 \in MainIds :
         /\ m1 # m2
         /\ main[m1].pc = "exec_order" /\ main[m2].pc = "exec_order"
         => main[m1].idx # main[m2].idx

C5_ExecuteFailureNotified ==
    [][event'.op = "exec" /\ event'.fail =>
         /\ UNCHANGED <<activeSignals, trailingStops, stopLossCooldowns>>
         /\ event'.notify = "error"]_vars

\* C6: a completed close sets the stop-loss cooldown of its symbol when it
\* is a stop-loss exit and leaves it alone otherwise (take-profit, or a
\* manual close whatever its reason text); nothing else sets a cooldown.
C6_CooldownOnlyOnStopLoss ==
    [][\A s \in Symbols :
         /\ event'.op = "close" /\ event'.res = "done" /\ event'.sym = s =>
              IF event'.reason = ReasonTrailing
              THEN stopLossCooldowns'[s] = now
              ELSE stopLossCooldowns'[s] = stopLossCooldowns[s]
         /\ stopLossCooldowns'[s] \notin {stopLossCooldowns[s], NoTime} =>
              event'.op = "close" /\ event'.res = "done" /\ event'.sym = s]_vars

\* C7: an active signal does not outlive its position: once the exchange
\* reports no position for a symbol that has an active signal, the signal
\* and its tracker are eventually removed.
C7_SignalRemovedAfterPosition ==
    \A s \in Symbols :
        (activeSignals[s] # Absent /\ positions[s] = Absent)
          ~> (activeSignals[s] = Absent /\ trailingStops[s] = Absent)

\* C8: a failed closePosition (position query or order) leaves the active
\* signal, the tracker, the cooldown and the recently-closed timestamp of
\* its symbol as they were, and a tick that handles a position whose stop
\* or take-profit condition holds calls closePosition, which goes on to
\* query the exchange.
C8_FailedCloseRetried ==
    [][\A s \in Symbols :
         /\ event'.op = "close" /\ event'.fail /\ event'.sym = s =>
              UNCHANGED <<activeSignals, trailingStops, stopLossCooldowns,
                          recentlyClosedPositions>>
         /\ /\ event'.op = "tick" /\ event'.sym = s
            /\ event'.res \in {"adopted", "processed"}
            /\ LET pos == positions[s]
                   tracker == trailingStops'[s]
                   signal == activeSignals'[s]
               IN
               \/ pos.side = BUY /\ pos.markPrice <= tracker.stop
               \/ pos.side = SELL /\ pos.markPrice >= tracker.stop
               \/ /\ signal # Absent
                  /\ signal.takeProfit # 0
                  /\ \/ pos.side = BUY /\ pos.markPrice >= signal.takeProfit
                     \/ pos.side = SELL /\ pos.markPrice <= signal.takeProfit
            => event'.call = "query"]_vars

\* A close failed for a position that is still reported, still tracked,
\* and at or past its stop: the next tick finds everything it needs.
C8_Witness ==
    \E s \in Symbols :
        /\ event.op = "close" /\ event.fail /\ event.sym = s
        /\ event.reason = ReasonTrailing
        /\ positions[s] # Absent /\ trailingStops[s] # Absent
        /\ activeSignals[s] # Absent
        /\ recentlyClosedPositions[s] = NoTime
        /\ positions[s].side = BUY
        /\ positions[s].markPrice <= trailingStops[s].stop

\* C9: an external call that fails inside executeSignal, closePosition or
\* updateTrailingStops is reported through notifyError.
C9_FailuresNotified ==
    event.fail /\ event.op \in {"exec", "close", "tick"} =>
        event.notify = "error"

\* C10: a tick that handles a long position with a tracker first raises
\* the extremum to a higher mark price and sets the stop to
\* extremum * (1 - pct / 100), then calls closePosition with
\* 'Trailing stop hit' when the mark price is at or below the stop.
C10_LongTickSemantics ==
    [][\A s \in Symbols :
         /\ event'.op = "tick" /\ event'.sym = s /\ event'.res = "processed"
         /\ positions[s].side = BUY
         =>
         LET mark == positions[s].markPrice
             old == trailingStops[s]
             new == trailingStops'[s]
         IN
         /\ IF mark > old.high
            THEN /\ new.high = mark
                 /\ new.stop * 100 = mark * (100 - getTrailingStopPercent(s))
            ELSE new = old
         /\ IF mark <= new.stop
            THEN event'.call = "query" /\ event'.reason = ReasonTrailing
            ELSE event'.reason # ReasonTrailing]_vars

\* Entry 100, 5 percent: the mark price was 110 on one tick, which left
\* the stop at 104.5, and is 104.5 on this tick, which closes the position
\* with 'Trailing stop hit'.
C10_Witness ==
    \E s \in Symbols :
        /\ event.op = "tick" /\ event.sym = s /\ event.res = "processed"
        /\ positions[s] = Position(s, BUY, 100000, 104500)
        /\ trailingStops[s] = [high |-> 110000, stop |-> 104500]
        /\ event.call = "query" /\ event.reason = ReasonTrailing
        /\ \E c \in TrailIds : closer[c].pc = "cp_positions" /\ closer[c].csym = s

C12_HistoryWithinCapacity ==
    [][\A s \in Symbols :
         LET old == priceHistory[s]
             new == priceHistory'[s]
             kept == SelectSeq(new, LAMBDA c : c <= lastCandleTimestamp[s])
         IN /\ Len(old) <= Max(50, 2 * lookbackPeriod)
            /\ Len(new) <= Max(50, 2 * lookbackPeriod)
            /\ lastCandleTimestamp[s] > 0 =>
                 kept = SubSeq(old, Len(old) - Len(kept) + 1, Len(old))]_vars

\* C13: every breakout signal generateSignal returns passed all rejection
\* filters: a BUY signal implies an UPTREND reading, price > EMA9 > EMA21 >
\* EMA50, a structure that is neither LOWER_LOWS nor CHOPPY, and RSI <= 70;
\* a SELL signal implies a DOWNTREND reading, the bearish alignment, a
\* structure that is neither HIGHER_HIGHS nor CHOPPY, and RSI >= 30.  A
\* close 0.2% above resistance on twice the average volume with RSI above
\* 70 yields no signal.
C13_BreakoutSignalPassedFilters ==
    \A s \in Symbols :
      query.fn = "generateSignal" /\ answer # NoAnswer =>
        LET len == Len(priceHistory[s])
            trend == detectTrend(len, 50, query.ranging, query.halves,
                                 query.emaStack)
            structure == detectPriceStructure(len, 10, query.halves)
            breakoutSide(side) == /\ answer.kind = "signal"
                                  /\ answer.path = "breakout"
                                  /\ answer.signal.side = side
        IN /\ breakoutSide(BUY) =>
                /\ trend = "UPTREND"
                /\ len >= 50 /\ query.emaAligned = "bull"
                /\ structure \notin {"LOWER_LOWS", "CHOPPY"}
                /\ query.rsi <= 70
           /\ breakoutSide(SELL) =>
                /\ trend = "DOWNTREND"
                /\ len >= 50 /\ query.emaAligned = "bear"
                /\ structure \notin {"HIGHER_HIGHS", "CHOPPY"}
                /\ query.rsi >= 30
           /\ ( /\ currentPrice(query) * 1000 = query.resistance * 1002
                /\ query.tail[Len(query.tail)].volume = 2 * query.avgVolume
                /\ query.rsi > 70 ) => answer.kind = "none"

\* A BUY breakout signal returned at RSI exactly 70.
C13_Witness ==
    /\ query.fn = "generateSignal"
    /\ answer # NoAnswer
    /\ answer.kind = "signal"
    /\ answer.path = "breakout"
    /\ answer.signal.side = BUY
    /\ query.rsi = 70

\* C14: on a 30-candle history whose newest candle closes at resistance x
\* 1.002 on 2.0 x the 20-candle average volume, with an uptrend in the
\* candles (not ranging, higher highs and higher lows, EMAs in bullish
\* order), EMA9 > EMA21 > EMA50 and RSI 55, generateSignal returns a BUY
\* signal whose entryPrice is that candle's close and whose stopLoss is
\* below it.
C14_ScenarioAYieldsBuy ==
    \A s \in Symbols :
      ( /\ query.fn = "generateSignal"
        /\ answer # NoAnswer
        /\ lookbackPeriod = 10
        /\ Len(priceHistory[s]) = 30
        /\ currentPrice(query) * 1000 = query.resistance * 1002
        /\ query.tail[Len(query.tail)].volume = 2 * query.avgVolume
        /\ ~query.ranging
        /\ query.halves = "HIGHER"
        /\ query.emaStack = "bull"
        /\ query.emaAligned = "bull"
        /\ query.rsi = 55 )
      => /\ answer.kind = "signal"
         /\ answer.signal.side = BUY
         /\ answer.signal.entryPrice = currentPrice(query)
         /\ answer.signal.stopLoss < answer.signal.entryPrice

\* C15: in the scan of generateSignal a candle with no volume spike and no
\* level breakout is accepted exactly when some window of 2..5 candles
\* ending at it moved more than 1.75% between its first and last close on
\* a window-average volume of at least 0.2 of the average volume, in the
\* direction of the smallest such window, and the price-location check
\* holds for that direction (current price above support for BULLISH,
\* below resistance for BEARISH); when the newest candle is accepted this
\* way, the call returns a signal exactly when the rejection filters pass,
\* for that direction.
C15_CumulativeMoveCandidate ==
    \A s \in Symbols :
      query.fn = "generateSignal" =>
        LET q == query
            last == Len(q.tail)
            quiet(p) ==
                /\ ~(q.tail[p].volume * 10 > q.avgVolume * 15)
                /\ ~(q.tail[p].close * 1000 > q.resistance * 1001)
                /\ ~(q.tail[p].close * 1000 < q.support * 999)
            move(p, w) == (q.tail[p].close - q.tail[p - w + 1].close) * 10000
            matches(p, w) ==
                /\ \/ move(p, w) > 175 * q.tail[p - w + 1].close
                   \/ move(p, w) < (0 - 175) * q.tail[p - w + 1].close
                /\ WindowVolume(q, p - w + 1, p) * 5 >= w * q.avgVolume
            windows(p) == {w \in 2..5 : matches(p, w)}
            smallest(p) == CHOOSE w \in windows(p) :
                              \A v \in windows(p) : w <= v
            direction(p) == IF windows(p) = {} THEN "none"
                            ELSE IF move(p, smallest(p)) > 0 THEN "BULLISH"
                            ELSE "BEARISH"
            expected(p) ==
                IF direction(p) = "BULLISH" /\ currentPrice(q) > q.support
                THEN "BULLISH"
                ELSE IF direction(p) = "BEARISH"
                        /\ currentPrice(q) < q.resistance
                THEN "BEARISH"
                ELSE "none"
            passes(d) ==
                /\ Len(priceHistory[s]) >= 200
                /\ ~q.ranging
                /\ IF d = "BULLISH"
                   THEN q.halves = "HIGHER" /\ q.emaStack = "bull"
                        /\ q.emaAligned = "bull" /\ q.rsi <= 70
                   ELSE q.halves = "LOWER" /\ q.emaStack = "bear"
                        /\ q.emaAligned = "bear" /\ q.rsi >= 30
        IN /\ \A p \in (last - 4)..last :
                quiet(p) => CandleVerdict(q, p) = expected(p)
           /\ ( /\ answer # NoAnswer
                /\ Len(priceHistory[s]) > lookbackPeriod
                /\ quiet(last)
                /\ expected(last) # "none" )
              => /\ answer.kind = "signal" <=> passes(expected(last))
                 /\ answer.kind = "signal" =>
                      /\ answer.path = "breakout"
                      /\ answer.signal.side =
                           IF expected(last) = "BULLISH" THEN BUY ELSE SELL

\* A 3-candle move of +2.1% at a volume ratio of 0.25, the newest candle
\* without volume spike or level breakout and the 2-candle window below
\* the threshold, returned as a BUY breakout signal.
C15_Witness ==
    /\ query.fn = "generateSignal"
    /\ answer # NoAnswer
    /\ LET q == query
           last == Len(q.tail)
       IN /\ ~isVolumeSpike(q.tail[last].volume, q.avgVolume, volumeMultiplier)
          /\ detectBreakout(q.tail[last].close, q.resistance, q.support,
                            breakoutBuffer) = "none"
          /\ q.tail[last].close * 1000 = q.tail[last - 2].close * 1021
          /\ (q.tail[last].close - q.tail[last - 1].close) * 10000
                <= 175 * q.tail[last - 1].close
          /\ WindowVolume(q, last - 2, last) * 100 = 25 * 3 * q.avgVolume
    /\ answer.kind = "signal"
    /\ answer.path = "breakout"
    /\ answer.signal.side = BUY

\* C16: on a candle sequence of length >= lookback + 1, calculateResistance
\* returns the maximum high (calculateSupport the minimum low) of the
\* lookback candles immediately preceding the final candle, and the result
\* is the same whatever the final candle is: a final candle that is a new
\* all-time high does not raise the resistance.
C16_LevelsExcludeCurrentCandle ==
    ( /\ query.fn \in {"calculateResistance", "calculateSupport"}
      /\ answer # NoAnswer
      /\ Len(query.prices) >= query.lookbackPeriod + 1 )
    => LET prices == query.prices
           n == Len(prices)
           window == (n - query.lookbackPeriod)..(n - 1)
           finals == {[high |-> h, low |-> l] : h \in 9..17, l \in 9..17}
           withFinal(c) == [prices EXCEPT ![n] = c]
       IN /\ answer.kind = "value"
          /\ query.fn = "calculateResistance" =>
               /\ \E i \in window : prices[i].high = answer.value
               /\ \A i \in window : prices[i].high <= answer.value
               /\ \A c \in finals :
                    calculateResistance(withFinal(c), query.lookbackPeriod)
                      = answer
          /\ query.fn = "calculateSupport" =>
               /\ \E i \in window : prices[i].low = answer.value
               /\ \A i \in window : prices[i].low >= answer.value
               /\ \A c \in finals :
                    calculateSupport(withFinal(c), query.lookbackPeriod)
                      = answer

\* A resistance returned below the high of the final candle, which is
\* above every earlier high.
C16_Witness ==
    /\ query.fn = "calculateResistance"
    /\ answer # NoAnswer
    /\ answer.kind = "value"
    /\ Len(query.prices) = MaxPrices
    /\ \A i \in 1..(Len(query.prices) - 1) :
         query.prices[i].high < query.prices[Len(query.prices)].high
    /\ answer.value < query.prices[Len(query.prices)].high

\* C17: calculateRSI(history, periods) returns exactly 100 whenever the
\* last periods close-to-close changes are all non-negative, on every
\* history of length >= periods + 1, whatever the earlier changes were.
C17_RsiHundredWithoutRecentLoss ==
    ( /\ query.fn \in {"calculateRSI", "calculateRSIRecent"}
      /\ answer # NoAnswer
      /\ Len(query.prices) >= query.periods + 1
      /\ \A i \in (Len(query.prices) - query.periods)..(Len(query.prices) - 1) :
           query.prices[i + 1].close >= query.prices[i].close )
    => /\ answer.kind = "value"
       /\ answer.value.num = 100 * answer.value.den

\* C18: detectBreakout(price, resistance, support, buffer) returns BULLISH
\* exactly when price > resistance x (1 + buffer), otherwise BEARISH
\* exactly when price < support x (1 - buffer), otherwise none; a higher
\* price never gives a lower result (BEARISH below none below BULLISH), and
\* a price equal to a boundary gives none.
C18_BreakoutBoundaries ==
    (query.fn = "detectBreakout" /\ answer # NoAnswer) =>
      LET above == query.price * 1000 > query.resistance * (1000 + query.buffer)
          below == query.price * 1000 < query.support * (1000 - query.buffer)
          rank(r) == IF r = "BEARISH" THEN 0 ELSE IF r = "none" THEN 1 ELSE 2
      IN /\ answer.kind = "value"
         /\ answer.value = "BULLISH" <=> above
         /\ answer.value = "BEARISH" <=> (~above /\ below)
         /\ answer.value = "none" <=> (~above /\ ~below)
         /\ \A higher \in query.price..(query.price + 1100) :
              rank(detectBreakout(higher, query.resistance, query.support,
                                  query.buffer)) >= rank(answer.value)
         /\ query.price * 1000 = query.resistance * (1000 + query.buffer)
              => /\ answer.value # "BULLISH"
                 /\ ~below => answer.value = "none"
         /\ query.price * 1000 = query.support * (1000 - query.buffer)
              => answer.value # "BEARISH"

\* A price exactly at resistance x 1.001 answered none.
C18_Witness ==
    /\ query.fn = "detectBreakout"
    /\ answer # NoAnswer
    /\ query.buffer = 1
    /\ query.price * 1000 = query.resistance * 1001
    /\ query.support < query.resistance
    /\ answer.value = "none"

\* C19: every indicator function raises the insufficient-data error when
\* its input sequence is shorter than the window it requires (lookback + 1
\* candles for the levels, periods + 1 for the RSI, longPeriod for
\* detectTrend, 2 x lookback for detectPriceStructure, 50 for isEmaAligned);
\* none returns an ordinary value for a too-short input.
C19_TooShortInputRaises ==
    LET tooShort ==
          CASE query.fn \in {"calculateResistance", "calculateSupport"} ->
                 Len(query.prices) < query.lookbackPeriod + 1
            [] query.fn \in {"calculateRSI", "calculateRSIRecent"} ->
                 Len(query.prices) < query.periods + 1
            [] query.fn = "detectTrend" -> query.len < query.longPeriod
            [] query.fn = "detectPriceStructure" ->
                 query.len < query.lookback * 2
            [] query.fn = "isEmaAligned" -> query.len < 50
            [] OTHER -> FALSE
    IN (answer # NoAnswer /\ tooShort) => answer.kind = "raise"

\* C20: across any sequence of main-loop ticks, the number of positions
\* held open at the same time never exceeds maxPositions, positions opened
\* earlier in the same tick included.
C20_PositionsWithinMax ==
    Cardinality(openPositions) <= maxPositions

\* C21: the trailing-stop distance the engine applies is the configured
\* trailingStopPercent: the tracker executeSignal registers from a signal,
\* the tracker created for a position without one, and a stop recomputed
\* at a new extreme of the mark price all have their stop at
\* extremum x (1 - trailingStopPercent / 100) for a long and at
\* extremum x (1 + trailingStopPercent / 100) for a short.
C21_StopDistanceIsConfigured ==
    [][\A s \in Symbols :
         LET atConfigured(side, tracker) ==
               tracker.stop * 1000 =
                 tracker.high * (IF side = BUY
                                 THEN 1000 - trailingStopPercent
                                 ELSE 1000 + trailingStopPercent)
         IN
         /\ (event'.op = "exec" /\ event'.sym = s
               /\ event'.res = "registered")
              => atConfigured(activeSignals'[s].side, trailingStops'[s])
         /\ (event'.op = "tick" /\ event'.sym = s
               /\ event'.res \in {"adopted", "processed"}
               /\ (event'.res = "adopted"
                     \/ trailingStops'[s].high # trailingStops[s].high))
              => atConfigured(positions[s].side, trailingStops'[s])]_vars

\* C22: a failure of an external call made for one symbol does not stop the
\* tick: after a failed close in updateTrailingStops the loop goes on with
\* the next reported position, and after a failure while refreshing,
\* generating or executing for one pair mainLoop goes on with the next pair
\* (after the last refresh, with the signal loop).
C22_FailureDoesNotStopBatch ==
    [][/\ ( /\ trail.pc = "positions" /\ trail' # trail /\ trail'.failed
            /\ trail.idx < Len(trail.snapshot) )
          => /\ trail'.pc = "positions"
             /\ trail'.snapshot = trail.snapshot
             /\ trail'.idx = trail.idx + 1
       /\ ( /\ loop.pc \in {"refresh", "pairs"} /\ loop' # loop
            /\ loop'.failed )
          => IF loop.idx < Len(tradingPairs)
             THEN /\ loop'.pc = loop.pc
                  /\ loop'.snapshot = loop.snapshot
                  /\ loop'.idx = loop.idx + 1
             ELSE ( loop.pc = "refresh"
                    /\ Cardinality(loop.snapshot) < maxPositions )
                  => /\ loop'.pc = "pairs"
                     /\ loop'.snapshot = loop.snapshot
                     /\ loop'.idx = 1]_vars

\* updateTrailingStops is at its second reported position after a failed
\* close of the first, while mainLoop is at its second pair after a
\* failure for the first.
C22_Witness ==
    /\ trail.pc = "positions" /\ trail.idx = 2 /\ trail.failed
    /\ loop.pc = "pairs" /\ loop.idx = 2 /\ loop.failed

\* C23: a failure of the notification sink never changes the engine's
\* resulting state.  After a successful close order, whether
\* notifyPositionClosed was delivered or failed, the active signal and the
\* tracker of the symbol are removed and the cooldown starts exactly when
\* the reason includes 'stop'; after a successful entry order, whether
\* notifyPositionOpened was delivered or failed, the signal and its tracker
\* are registered.
C23_SinkFailureLeavesState ==
    [][\A s \in Symbols :
         /\ (event'.op = "close" /\ event'.sym = s /\ event'.sink # "-")
              => /\ event'.res = "done"
                 /\ activeSignals'[s] = Absent
                 /\ trailingStops'[s] = Absent
                 /\ stopLossCooldowns'[s] =
                      IF IsStopReason(event'.reason) THEN now
                      ELSE stopLossCooldowns[s]
                 /\ recentlyClosedPositions' = recentlyClosedPositions
         /\ (event'.op = "exec" /\ event'.sym = s /\ event'.sink # "-")
              => /\ event'.res = "registered"
                 /\ activeSignals'[s] # Absent
                 /\ trailingStops'[s] = TrackerOfSignal(activeSignals'[s])]_vars

\* A close whose notification failed has removed a signal and a tracker
\* and started the cooldown.
C23_Witness ==
    /\ event.op = "close"
    /\ event.sink = "failed"
    /\ event.res = "done"
    /\ \E s \in Symbols :
         /\ event.sym = s
         /\ activeSignals[s] = Absent
         /\ trailingStops[s] = Absent
         /\ stopLossCooldowns[s] = now

\* C24: in every reachable state no symbol is both POSITION_OPEN and in
\* COOLDOWN: no symbol has an active signal registered while its stop-loss
\* cooldown timestamp is less than 15 minutes old.
C24_NoActiveSignalInCooldown ==
    \A s \in Symbols :
       ~(activeSignals[s] # Absent /\ InCooldown(stopLossCooldowns[s], now))

\* C25: executeSignal sends no entry order for a symbol whose stop-loss
\* cooldown is active at the moment the order is sent, also when the
\* cooldown was started by a closePosition that ran while executeSignal was
\* suspended at its position query.
C25_NoEntryOrderInCooldown ==
    [][\A s \in Symbols :
         (event'.op = "exec" /\ event'.sym = s /\ event'.order = "entry")
           => ~InCooldown(stopLossCooldowns[s], now)]_vars

\* C26: in every reachable state, a symbol that has an active signal
\* registered (POSITION_OPEN) also has a trailing-stop tracker.
C26_ActiveSignalHasTracker ==
    \A s \in Symbols :
       activeSignals[s] # Absent => trailingStops[s] # Absent

\* C27: when executeSignal finds at its position query that the exchange
\* reports a position for the signal's symbol, it sends no order and
\* registers the signal as the symbol's active signal; no entry order is
\* sent for a symbol the exchange reported as open at the check.
C27_ReconcilesExistingPosition ==
    [][\A m \in MainIds :
         (main[m].pc = "exec_positions" /\ main'[m] # main[m]) =>
           LET s == SymbolSeq[main[m].idx] IN
           /\ positions[s] # Absent =>
                /\ event'.order = "none"
                /\ resting' = resting
                /\ event'.res \in {"reconciled", "failed"}
                /\ event'.res = "reconciled"
                     => activeSignals'[s] = main[m].sig
           /\ event'.order = "entry" => positions[s] = Absent]_vars

\* executeSignal has found a reported position and registered its signal.
C27_Witness ==
    /\ event.op = "exec"
    /\ event.res = "reconciled"
    /\ event.order = "none"
    /\ \E s \in Symbols :
         /\ event.sym = s
         /\ positions[s] # Absent
         /\ activeSignals[s] # Absent

\* C28: after executeSignal succeeds, for a BUY and for a SELL signal alike,
\* the symbol has the signal registered as active and a trailing-stop
\* tracker whose extremum is the signal's entry price and whose stop is the
\* signal's stop price.
C28_ExecuteRegistersSignalAndTracker ==
    [][\A m \in MainIds :
         (main[m].pc = "exec_order" /\ event'.op = "exec"
            /\ event'.res = "registered") =>
           LET s == SymbolSeq[main[m].idx] IN
           /\ activeSignals'[s] = main[m].sig
           /\ trailingStops'[s] = [high |-> main[m].sig.entryPrice,
                                   stop |-> main[m].sig.stopLoss]]_vars

\* C29: when updateTrailingStops meets a reported position that has no
\* tracker and is outside the 2-minute window after a close, it creates a
\* tracker with extremum = the position's entry price and stop = entry x
\* (1 - pct/100) for a long, entry x (1 + pct/100) for a short (the same
\* pass then moves it only if the mark price is a new extreme), and it
\* registers a placeholder signal with the matching take-profit only if a
\* take-profit percentage is configured and no signal is active; a position
\* inside the window is skipped with no state change and no order.
C29_OrphanAdoptedOrSkipped ==
    [][\A c \in TrailIds, s \in Symbols :
         (closer[c].pc = "idle" /\ event'.op = "tick" /\ event'.sym = s) =>
           LET pos == positions[s]
               pct == getTrailingStopPercent(s)
               long == pos.side = BUY
               inWindow ==
                 /\ recentlyClosedPositions[s] # NoTime
                 /\ now - recentlyClosedPositions[s] < 2 * 60 * 1000
               created ==
                 [high |-> pos.entryPrice,
                  stop |-> IF long
                           THEN (pos.entryPrice * (100 - pct)) \div 100
                           ELSE (pos.entryPrice * (100 + pct)) \div 100]
               newExtreme == IF long THEN pos.markPrice > pos.entryPrice
                                     ELSE pos.markPrice < pos.entryPrice
               placeholder ==
                 [side |-> pos.side,
                  entryPrice |-> pos.entryPrice,
                  stopLoss |-> created.stop,
                  takeProfit |->
                    IF long
                    THEN (pos.entryPrice * (100 + takeProfitPercent)) \div 100
                    ELSE (pos.entryPrice * (100 - takeProfitPercent)) \div 100]
           IN
           /\ inWindow =>
                /\ event'.res = "skipped"
                /\ event'.order = "none"
                /\ event'.call = "none"
                /\ UNCHANGED <<engineVars, closer, positions, resting>>
           /\ (~inWindow /\ trailingStops[s] = Absent) =>
                /\ event'.res = "adopted"
                /\ event'.order = "none"
                /\ IF newExtreme
                   THEN trailingStops'[s].high = pos.markPrice
                   ELSE trailingStops'[s] = created
                /\ activeSignals'[s] =
                     IF activeSignals[s] = Absent /\ takeProfitPercent # 0
                     THEN placeholder
                     ELSE activeSignals[s]]_vars

\* updateTrailingStops has adopted a short position the exchange reported
\* at its entry price: the tracker and the placeholder signal are in place.
C29_Witness ==
    /\ event.op = "tick"
    /\ event.res = "adopted"
    /\ \E s \in Symbols :
         /\ event.sym = s
         /\ positions[s] # Absent
         /\ positions[s].side = SELL
         /\ positions[s].markPrice = positions[s].entryPrice
         /\ trailingStops[s] # Absent
         /\ trailingStops[s].high = positions[s].entryPrice
         /\ trailingStops[s].stop > positions[s].entryPrice
         /\ activeSignals[s] # Absent
         /\ activeSignals[s].takeProfit < positions[s].entryPrice

\* C30: in every reachable state each symbol's stored price history has
\* strictly increasing candle timestamps, hence no duplicates, after any
\* sequence of initializeWithHistoricalData and updatePriceHistory calls
\* whose fetched batches are in ascending timestamp order, overlapping the
\* stored history or not.
C30_HistoryStrictlyIncreasing ==
    \A s \in Symbols :
       \A i \in 1..Len(priceHistory[s]), j \in 1..Len(priceHistory[s]) :
          i < j => priceHistory[s][i] < priceHistory[s][j]

\* A stored history of four candles or more whose oldest candle is not the
\* oldest a fetch can list and whose newest is the newest: what a backfill
\* and refreshes that overlap it leave.
C30_Witness ==
    \E s \in Symbols :
       /\ Len(priceHistory[s]) >= 4
       /\ priceHistory[s][1] > 1
       /\ lastCandleTimestamp[s] = priceHistory[s][Len(priceHistory[s])]
       /\ lastCandleTimestamp[s] = MaxStamp

C32_TakeProfitSignalMatchesPosition ==
    [][\A c \in TrailIds, s \in Symbols :
         (/\ closer[c].pc = "idle"
          /\ event'.op = "tick" /\ event'.sym = s
          /\ event'.res \in {"adopted", "processed"}
          /\ event'.reason # ReasonTrailing
          /\ activeSignals'[s] # Absent
          /\ activeSignals'[s].takeProfit # 0) =>
           /\ activeSignals'[s].side = positions[s].side
           /\ event'.reason = ReasonTakeProfit =>
                IF positions[s].side = BUY
                THEN positions[s].markPrice >= positions[s].entryPrice
                ELSE positions[s].markPrice <= positions[s].entryPrice]_vars

\* C33: each tracker updateTrailingStops uses for a reported position is
\* consistent with that position: for a long, stop = extremum x (1 -
\* pct/100) and extremum >= the position's entry price; for a short, stop =
\* extremum x (1 + pct/100) and extremum <= the position's entry price, pct
\* being the symbol's trailing-stop percentage.
C33_TrackerConsistentWithPosition ==
    [][\A c \in TrailIds, s \in Symbols :
         (/\ closer[c].pc = "idle"
          /\ event'.op = "tick" /\ event'.sym = s
          /\ event'.res \in {"adopted", "processed"}) =>
           LET pos == positions[s]
               pct == getTrailingStopPercent(s)
               Consistent(tracker) ==
                 IF pos.side = BUY
                 THEN /\ tracker.stop = (tracker.high * (100 - pct)) \div 100
                      /\ tracker.high >= pos.entryPrice
                 ELSE /\ tracker.stop = (tracker.high * (100 + pct)) \div 100
                      /\ tracker.high <= pos.entryPrice
           IN /\ trailingStops[s] # Absent => Consistent(trailingStops[s])
              /\ Consistent(trailingStops'[s])]_vars

C35_NewestCandleUpToDate ==
    \A s \in Symbols :
       (query.fn = "updatePriceHistory" /\ Len(query.recentCandles) > 0) =>
          LET history == priceHistory[s]
              fetched == query.recentCandles[Len(query.recentCandles)]
          IN /\ Len(history) > 0
             /\ history[Len(history)].timestamp = fetched.timestamp
             /\ history[Len(history)].close = fetched.close
             /\ history[Len(history)].volume = fetched.volume

\* C36: generateSignal never changes the active signals, the trailing-stop
\* trackers, the recently-closed map or the price history; of the engine
\* state it may only remove an expired cooldown entry of its symbol and,
\* with trend-following enabled, append its reading to the symbol's trend
\* history, which never holds more than 10 entries.
C36_GenerateSignalFrame ==
    [][\A s \in Symbols :
         LET called ==
               \/ /\ query.fn = "generateSignal"
                  /\ answer = NoAnswer /\ answer' # NoAnswer
               \/ /\ event'.op = "gen" /\ event'.sym = s
                  /\ \E m \in MainIds : main[m].pc = "loop"
             readings == trendHistory[s]
             appended(t) == IF Len(readings) < 10 THEN readings \o <<t>>
                            ELSE SubSeq(readings, 2, 10) \o <<t>>
         IN called =>
              /\ UNCHANGED <<activeSignals, trailingStops,
                             recentlyClosedPositions, priceHistory,
                             lastCandleTimestamp, positions, resting>>
              /\ \/ stopLossCooldowns' = stopLossCooldowns
                 \/ /\ stopLossCooldowns[s] # NoTime
                    /\ now - stopLossCooldowns[s] >= 15 * 60 * 1000
                    /\ stopLossCooldowns' =
                         [stopLossCooldowns EXCEPT ![s] = NoTime]
              /\ \/ trendHistory' = trendHistory
                 \/ /\ query.enableTrendFollowing
                    /\ \E t \in {"UPTREND", "DOWNTREND", "SIDEWAYS"} :
                         trendHistory' =
                           [trendHistory EXCEPT ![s] = appended(t)]
              /\ Len(trendHistory'[s]) <= 10]_vars

\* generateSignal has appended a reading to a trend history of 10 entries,
\* which still holds 10.
C36_Witness ==
    /\ query.fn = "generateSignal"
    /\ answer # NoAnswer
    /\ \E s \in Symbols :
         /\ Len(trendHistory[s]) = 10
         /\ trendHistory[s][1] = "UPTREND"
         /\ trendHistory[s][10] # "UPTREND"

\* C37: for every history shorter than 200 candles the three-layer
\* detectTrend never returns UPTREND or DOWNTREND (it returns SIDEWAYS or
\* fails for insufficient data at the EMA200); so while a symbol's history
\* holds fewer than 200 candles, as it always does when the backfill and
\* the capacity are below 200, generateSignal returns no breakout signal.
C37_NoBreakoutSignalBelow200 ==
    \A s \in Symbols :
       (query.fn = "generateSignal" /\ query.len < 200) =>
          /\ detectTrend(query.len, 50, query.ranging, query.halves,
                         query.emaStack) \in {"SIDEWAYS", "Insufficient data"}
          /\ ~(answer.kind = "signal" /\ answer.path = "breakout")
          /\ Max(100, lookbackPeriod * 2) < 200 => Len(priceHistory[s]) < 200

\* generateSignal has returned null for a history of 60 candles whose newest
\* candle the scan accepted, with the structure and the EMA order of an
\* uptrend and no ranging.
C37_Witness ==
    /\ query.fn = "generateSignal"
    /\ answer # NoAnswer
    /\ answer.kind = "none"
    /\ query.len = 60
    /\ Scan(query, Len(query.tail)).type = "BULLISH"
    /\ ~query.ranging
    /\ query.halves = "HIGHER"
    /\ query.emaStack = "bull"
    /\ query.emaAligned = "bull"
    /\ query.rsi = 55

\* C38: when two closePosition executions for the same symbol overlap (the
\* second starts while the first is suspended at its position query or at
\* its order placement), at most one reduce-only close order is sent for
\* the position: no execution sends its order while another execution's
\* order for the symbol, accepted by the exchange, awaits its response.
C38_OneCloseOrderWhenOverlapping ==
    [][\A c \in CloserIds, d \in CloserIds :
         (/\ c # d
          /\ closer[c].pc = "cp_positions"
          /\ closer'[c].pc = "cp_order"
          /\ closer'[c].accepted
          /\ closer[d].csym = closer[c].csym) =>
           ~(closer[d].pc = "cp_order" /\ closer[d].accepted)]_vars

\* C39: once a close order has been sent because a long position's mark
\* price reached its trailing stop S, as long as the exchange keeps
\* reporting that position the engine never manages it with a stop lower
\* than S: a later updateTrailingStops tick that processes the position
\* leaves it a stop of at least S, and calls closePosition again when the
\* mark price is still at or below S.
C39_StopKeptAfterStopClose ==
    [][\A s \in Symbols :
         (/\ event'.op = "tick" /\ event'.sym = s
          /\ event'.res \in {"adopted", "processed"}
          /\ orderedStop[s] # Absent) =>
           /\ trailingStops'[s].stop >= orderedStop[s].stop
           /\ positions[s].markPrice <= orderedStop[s].stop =>
                event'.call = "query"]_vars

====
